---- MODULE Spec2Model ----
(***************************************************************************)
(* The Harlowe passage parsers of twee-godot.                              *)
(*                                                                         *)
(* The repository holds several parsers written on typescript-parsec: the  *)
(* one exported by src/utils/parseHarlowe.ts (its second definition, lines  *)
(* 311-593, called "main" here), the link-aware parser of part_002 ("p2"),  *)
(* the validating parser of part_004 ("p4") and the keyword parser of       *)
(* part_005 ("p5").  Each is a lexer built by buildLexer from an ordered    *)
(* list of regular expressions, followed by a combinator grammar whose      *)
(* parsers return lists of candidates.                                      *)
(*                                                                         *)
(* Text is modelled as sequences of one-character strings.  A regular      *)
(* expression is modelled by an operator that returns the index just after  *)
(* the text the lexer cuts for it (0: no match).  A parser is an operator   *)
(* from a token index to an output [cs, th]: cs the candidates in the order *)
(* the library produces them, th the exception thrown on the way, if any.   *)
(***************************************************************************)
EXTENDS Integers, Sequences, FiniteSets, TLC

VARIABLES ver, input, pos, toks, bad, pc, memo, start, rule, result,
          lastIndex, calls

vars == <<ver, input, pos, toks, bad, pc, memo, start, rule, result,
          lastIndex, calls>>

(***************************************************************************)
(* Characters and character classes of the regular expressions.            *)
(***************************************************************************)
Digit == {"0", "1", "2", "3", "4", "5", "6", "7", "8", "9"}

Lower == {"a", "b", "c", "d", "e", "f", "g", "h", "i", "j", "k", "l", "m",
          "n", "o", "p", "q", "r", "s", "t", "u", "v", "w", "x", "y", "z"}

Upper == {"A", "B", "C", "D", "E", "F", "G", "H", "I", "J", "K", "L", "M",
          "N", "O", "P", "Q", "R", "S", "T", "U", "V", "W", "X", "Y", "Z"}

\* \w
WordCh == Lower \cup Upper \cup Digit \cup {"_"}

\* [a-zA-Z0-9_-]
NameCh == WordCh \cup {"-"}

\* [a-zA-Z_]
VarStartCh == Lower \cup Upper \cup {"_"}

\* \s
SpaceCh == {" ", "\t", "\n", "\r"}

\* the characters [^\[\]\(\)$,\s><="']+ stops at
TextStop == {"[", "]", "(", ")", "$", ",", ">", "<", "=", "\"", "'"} \cup SpaceCh

\* the characters [^\[\]\(\)$,\s]+ stops at
TextStopLoose == {"[", "]", "(", ")", "$", ","} \cup SpaceCh

\* the characters [^\[\]\(\)\-><,$\s"+*\/]+ stops at
TextStopLink == {"[", "]", "(", ")", "-", ">", "<", ",", "$", "\"", "+", "*", "/"}
                    \cup SpaceCh

\* [\+\-\*\/=<>!]
OperatorCh == {"+", "-", "*", "/", "=", "<", ">", "!"}

Min(S) == CHOOSE x \in S : \A y \in S : x <= y

Max(S) == CHOOSE x \in S : \A y \in S : x >= y

\* const x = v; ...: the value is computed once and named in F's body
Let(v, F(_)) == F(v)

(***************************************************************************)
(* Pieces of regular expressions.  s is the whole input, i the index the   *)
(* lexer stands at; a result is the index just after the match, 0 if none. *)
(***************************************************************************)
\* C*: the index after the longest run of characters of C starting at i
SpanIn(s, i, C) ==
    LET stop == {j \in i..Len(s) : s[j] \notin C}
    IN  IF stop = {} THEN Len(s) + 1 ELSE Min(stop)

\* [^C]*
SpanNotIn(s, i, C) ==
    LET stop == {j \in i..Len(s) : s[j] \in C}
    IN  IF stop = {} THEN Len(s) + 1 ELSE Min(stop)

\* a literal at i
Lit(s, i, lit) ==
    IF /\ i + Len(lit) - 1 <= Len(s)
       /\ \A k \in 1..Len(lit) : s[i + k - 1] = lit[k]
    THEN i + Len(lit)
    ELSE 0

\* \b between s[e-1] and s[e]
WordBoundary(s, e) ==
    (e > 1 /\ e - 1 <= Len(s) /\ s[e - 1] \in WordCh)
        # (e <= Len(s) /\ s[e] \in WordCh)

\* ^(l1|l2|...): the first alternative, in order, that matches at i
AltLit(s, i, lits) ==
    Let([k \in 1..Len(lits) |-> Lit(s, i, lits[k])] \o <<>>,
        LAMBDA e : IF \A k \in 1..Len(e) : e[k] = 0
                   THEN 0
                   ELSE e[Min({k \in 1..Len(e) : e[k] # 0})])

\* ^(l1|l2|...)\b: the first alternative that matches and ends at a boundary
AltLitB(s, i, lits) ==
    Let([k \in 1..Len(lits) |-> Lit(s, i, lits[k])] \o <<>>,
        LAMBDA e : IF \A k \in 1..Len(e) : e[k] = 0 \/ ~WordBoundary(s, e[k])
                   THEN 0
                   ELSE e[Min({k \in 1..Len(e) :
                                 e[k] # 0 /\ WordBoundary(s, e[k])})])

\* ^a|f1|f2: only the first alternative is anchored.  test() finds the
\* leftmost match anywhere in the rest of the input, and the lexer cuts the
\* text from i to the end of that match.
\* f1|f2 searched from index from on
SearchFrom(s, from, free) ==
    Let([j \in 1..Len(s) |-> IF j < from THEN 0 ELSE AltLit(s, j, free)] \o <<>>,
        LAMBDA e : IF \A j \in 1..Len(e) : e[j] = 0
                   THEN 0
                   ELSE e[Min({j \in 1..Len(e) : e[j] # 0})])

SearchLit(s, i, anchored, free) ==
    IF Lit(s, i, anchored) # 0
    THEN i + Len(anchored)
    ELSE SearchFrom(s, i, free)

\* \d+(\.\d+)?
NumberEnd(s, i) ==
    Let(SpanIn(s, i, Digit),
        LAMBDA e1 :
            IF e1 = i THEN 0
            ELSE IF e1 <= Len(s) /\ s[e1] = "."
            THEN Let(SpanIn(s, e1 + 1, Digit),
                     LAMBDA e2 : IF e2 > e1 + 1 THEN e2 ELSE e1)
            ELSE e1)

\* \d+(\.\d+)?s\b
TimeEnd(s, i) ==
    Let(NumberEnd(s, i),
        LAMBDA e : IF e # 0 /\ e <= Len(s) /\ s[e] = "s" /\ WordBoundary(s, e + 1)
                   THEN e + 1
                   ELSE 0)

\* \(C+:
MacroNameEnd(s, i, C) ==
    IF i <= Len(s) /\ s[i] = "("
    THEN Let(SpanIn(s, i + 1, C),
             LAMBDA e : IF e > i + 1 /\ e <= Len(s) /\ s[e] = ":" THEN e + 1 ELSE 0)
    ELSE 0

\* \$[a-zA-Z_][a-zA-Z0-9_-]*
VariableEnd(s, i) ==
    IF i + 1 <= Len(s) /\ s[i] = "$" /\ s[i + 1] \in VarStartCh
    THEN SpanIn(s, i + 2, NameCh)
    ELSE 0

\* \"[^\"]*\"
StringEnd(s, i) ==
    IF i <= Len(s) /\ s[i] = "\""
    THEN Let(SpanNotIn(s, i + 1, {"\""}),
             LAMBDA e : IF e <= Len(s) THEN e + 1 ELSE 0)
    ELSE 0

\* \[[^\]]*\]
HookContentEnd(s, i) ==
    IF i <= Len(s) /\ s[i] = "["
    THEN Let(SpanNotIn(s, i + 1, {"]"}),
             LAMBDA e : IF e <= Len(s) THEN e + 1 ELSE 0)
    ELSE 0

\* C+
Plus1In(s, i, C) ==
    Let(SpanIn(s, i, C), LAMBDA e : IF e > i THEN e ELSE 0)

\* [^C]+
Plus1NotIn(s, i, C) ==
    Let(SpanNotIn(s, i, C), LAMBDA e : IF e > i THEN e ELSE 0)

\* (to|->)(?=\s)
KeywordEnd(s, i) ==
    Let(AltLit(s, i, << <<"t", "o">>, <<"-", ">">> >>),
        LAMBDA e : IF e # 0 /\ e <= Len(s) /\ s[e] \in SpaceCh THEN e ELSE 0)

(***************************************************************************)
(* The literals of the token patterns.                                     *)
(***************************************************************************)
L_to == <<"t", "o">>

L_arrow == <<"-", ">">>

L_true == <<"t", "r", "u", "e">>

L_false == <<"f", "a", "l", "s", "e">>

L_ge == <<">", "=">>

L_le == <<"<", "=">>

L_gt == <<">">>

L_lt == <<"<">>

L_is == <<"i", "s">>

L_is_not == <<"i", "s", " ", "n", "o", "t">>

L_contains == <<"c", "o", "n", "t", "a", "i", "n", "s">>

L_does_not_contain == <<"d", "o", "e", "s", " ", "n", "o", "t", " ", "c", "o", "n", "t", "a", "i", "n">>

L_and == <<"a", "n", "d">>

L_or == <<"o", "r">>

L_apos_s == <<"'", "s">>

L_its == <<"i", "t", "s">>

L_of == <<"o", "f">>

L_bind == <<"b", "i", "n", "d">>

L_2bind == <<"2", "b", "i", "n", "d">>

(***************************************************************************)
(* The token patterns.  MatchEnd(re, s, i) is where pattern re, applied to *)
(* the rest of input s from index i, sets lastIndex (as an index of s): 0   *)
(* when test() fails.                                                       *)
(***************************************************************************)
MatchEnd(re, s, i) ==
    CASE re = "\\([a-zA-Z0-9_-]+:" -> MacroNameEnd(s, i, NameCh)
      [] re = "\\(\\w+:" -> MacroNameEnd(s, i, WordCh)
      [] re = "\\)" -> Lit(s, i, <<")">>)
      [] re = "\\$[a-zA-Z_][a-zA-Z0-9_-]*" -> VariableEnd(s, i)
      [] re = "\"[^\"]*\"" -> StringEnd(s, i)
      [] re = "\\d+(\\.\\d+)?s\\b" -> TimeEnd(s, i)
      [] re = "\\d+(\\.\\d+)?" -> NumberEnd(s, i)
      [] re = "(true|false)" -> AltLit(s, i, <<L_true, L_false>>)
      [] re = "(true|false)\\b" -> AltLitB(s, i, <<L_true, L_false>>)
      [] re = "->" -> Lit(s, i, L_arrow)
      [] re = "<-" -> Lit(s, i, <<"<", "-">>)
      [] re = "to\\b" -> AltLitB(s, i, <<L_to>>)
      [] re = "(>=|<=|>|<)" -> AltLit(s, i, <<L_ge, L_le, L_gt, L_lt>>)
      [] re = "(is not|is|contains|does not contain)\\b" ->
            AltLitB(s, i, <<L_is_not, L_is, L_contains, L_does_not_contain>>)
      [] re = "(>=|<=|>|<|is not|is|contains|does not contain)\\b" ->
            AltLitB(s, i, <<L_ge, L_le, L_gt, L_lt, L_is_not, L_is, L_contains,
                            L_does_not_contain>>)
      [] re = "(>=|<=|is|contains|does not contain)\\b" ->
            AltLitB(s, i, <<L_ge, L_le, L_is, L_contains, L_does_not_contain>>)
      [] re = "(\\+|\\-|\\*|\\/)" ->
            AltLit(s, i, << <<"+">>, <<"-">>, <<"*">>, <<"/">> >>)
      [] re = "(\\+|\\-|\\*|\\/)\\b" ->
            AltLitB(s, i, << <<"+">>, <<"-">>, <<"*">>, <<"/">> >>)
      [] re = "\\+" -> Lit(s, i, <<"+">>)
      [] re = "\\-" -> Lit(s, i, <<"-">>)
      [] re = "\\*" -> Lit(s, i, <<"*">>)
      [] re = "\\/" -> Lit(s, i, <<"/">>)
      [] re = ">" -> Lit(s, i, <<">">>)
      [] re = "<" -> Lit(s, i, <<"<">>)
      [] re = "(and|or)\\b" -> AltLitB(s, i, <<L_and, L_or>>)
      [] re = "'s|its|of" -> SearchLit(s, i, L_apos_s, <<L_its, L_of>>)
      [] re = "bind|2bind" -> SearchLit(s, i, L_bind, <<L_2bind>>)
      [] re = "\\[" -> Lit(s, i, <<"[">>)
      [] re = "\\]" -> Lit(s, i, <<"]">>)
      [] re = "\\[\\[" -> Lit(s, i, <<"[", "[">>)
      [] re = "\\]\\]" -> Lit(s, i, <<"]", "]">>)
      [] re = "," -> Lit(s, i, <<",">>)
      [] re = "\\s+" -> Plus1In(s, i, SpaceCh)
      [] re = "[ \\t\\n\\r]+" -> Plus1In(s, i, SpaceCh)
      [] re = "\\n+" -> Plus1In(s, i, {"\n"})
      [] re = "$" -> 0
      [] re = "\\[[^\\]]*\\]" -> HookContentEnd(s, i)
      [] re = "[^\\[\\]\\(\\)$,\\s><=\"']+" -> Plus1NotIn(s, i, TextStop)
      [] re = "[^\\[\\]\\(\\)$,\\s]+" -> Plus1NotIn(s, i, TextStopLoose)
      [] re = "[^\\[\\]\\(\\)\\-><,$\\s\"+*\\/]+" -> Plus1NotIn(s, i, TextStopLink)
      [] re = "[\\+\\-\\*\\/=<>!]+" -> Plus1In(s, i, OperatorCh)
      [] re = "(to|->)(?=\\s)" -> KeywordEnd(s, i)

Rule(keep, re, kind) == [keep |-> keep, re |-> re, kind |-> kind]

\* src/utils/parseHarlowe.ts, the exported parser
tokenizer ==
    << Rule(TRUE, "\\([a-zA-Z0-9_-]+:", "MacroName"),
       Rule(TRUE, "\\)", "RParen"),
       Rule(TRUE, "\\$[a-zA-Z_][a-zA-Z0-9_-]*", "Variable"),
       Rule(TRUE, "\"[^\"]*\"", "StringLiteral"),
       Rule(TRUE, "\\d+(\\.\\d+)?s\\b", "Time"),
       Rule(TRUE, "\\d+(\\.\\d+)?", "Number"),
       Rule(TRUE, "(true|false)", "Boolean"),
       Rule(TRUE, "->", "Arrow"),
       Rule(TRUE, "to\\b", "To"),
       Rule(TRUE, "(>=|<=|>|<)", "ComparisonOp"),
       Rule(TRUE, "(is not|is|contains|does not contain)\\b", "ComparisonOp"),
       Rule(TRUE, "(\\+|\\-|\\*|\\/)", "ArithmeticOp"),
       Rule(TRUE, "(and|or)\\b", "LogicalOp"),
       Rule(TRUE, "'s|its|of", "PropertyAccess"),
       Rule(TRUE, "bind|2bind", "Binding"),
       Rule(TRUE, "\\[", "HookOpen"),
       Rule(TRUE, "\\]", "HookClose"),
       Rule(TRUE, ",", "Comma"),
       Rule(FALSE, "\\s+", "Whitespace"),
       Rule(TRUE, "\\[[^\\]]*\\]", "HookContent"),
       Rule(TRUE, "[^\\[\\]\\(\\)$,\\s><=\"']+", "Text") >>

\* part_002
tokenizer_p2 ==
    << Rule(FALSE, "[ \\t\\n\\r]+", "Space"),
       Rule(TRUE, "\\+", "Plus"),
       Rule(TRUE, "\\-", "Minus"),
       Rule(TRUE, "\\*", "Multiply"),
       Rule(TRUE, "\\/", "Divide"),
       Rule(TRUE, ">", "GreaterThan"),
       Rule(TRUE, "<", "LessThan"),
       Rule(TRUE, "(>=|<=|is|contains|does not contain)\\b", "ComparisonOp"),
       Rule(TRUE, "\\[\\[", "LinkOpen"),
       Rule(TRUE, "\\]\\]", "LinkClose"),
       Rule(TRUE, "->", "Arrow"),
       Rule(TRUE, "<-", "LinkArrowLeft"),
       Rule(TRUE, "\\[", "HookOpen"),
       Rule(TRUE, "\\]", "HookClose"),
       Rule(TRUE, "\\([a-zA-Z0-9_-]+:", "MacroName"),
       Rule(TRUE, "\\)", "RParen"),
       Rule(TRUE, "to\\b", "To"),
       Rule(TRUE, "(and|or)\\b", "LogicalOp"),
       Rule(TRUE, "\\$[a-zA-Z_][a-zA-Z0-9_-]*", "Variable"),
       Rule(TRUE, "\"[^\"]*\"", "StringLiteral"),
       Rule(TRUE, "\\d+(\\.\\d+)?s\\b", "Time"),
       Rule(TRUE, "\\d+(\\.\\d+)?", "Number"),
       Rule(TRUE, "(true|false)\\b", "Boolean"),
       Rule(TRUE, ",", "Comma"),
       Rule(TRUE, "[^\\[\\]\\(\\)\\-><,$\\s\"+*\\/]+", "Text") >>

\* part_004
tokenizer_p4 ==
    << Rule(TRUE, "\\(\\w+:", "MacroName"),
       Rule(TRUE, "\\)", "RParen"),
       Rule(TRUE, "\\$[a-zA-Z_][a-zA-Z0-9_-]*", "Variable"),
       Rule(TRUE, "\"[^\"]*\"", "StringLiteral"),
       Rule(TRUE, "\\d+(\\.\\d+)?", "Number"),
       Rule(TRUE, "(true|false)", "Boolean"),
       Rule(TRUE, "[\\+\\-\\*\\/=<>!]+", "Operator"),
       Rule(TRUE, "(to|->)(?=\\s)", "Keyword"),
       Rule(TRUE, "'s|its|of", "PropertyAccess"),
       Rule(TRUE, "bind|2bind", "Binding"),
       Rule(TRUE, "\\[", "HookOpen"),
       Rule(TRUE, "\\]", "HookClose"),
       Rule(TRUE, ",", "Comma"),
       Rule(FALSE, "\\s+", "Whitespace"),
       Rule(TRUE, "[^\\[\\]\\(\\)$,\\s]+", "Text"),
       Rule(FALSE, "\\n+", "Newline"),
       Rule(FALSE, "$", "EOF") >>

\* part_005
tokenizer_p5 ==
    << Rule(TRUE, "\\(\\w+:", "MacroName"),
       Rule(TRUE, "\\)", "RParen"),
       Rule(TRUE, "\\$[a-zA-Z_][a-zA-Z0-9_-]*", "Variable"),
       Rule(TRUE, "\"[^\"]*\"", "StringLiteral"),
       Rule(TRUE, "\\d+(\\.\\d+)?", "Number"),
       Rule(TRUE, "(true|false)", "Boolean"),
       Rule(TRUE, "->", "Arrow"),
       Rule(TRUE, "to\\b", "To"),
       Rule(TRUE, "(>=|<=|>|<|is not|is|contains|does not contain)\\b",
            "ComparisonOp"),
       Rule(TRUE, "(\\+|\\-|\\*|\\/)\\b", "ArithmeticOp"),
       Rule(TRUE, "(and|or)\\b", "LogicalOp"),
       Rule(TRUE, "'s|its|of", "PropertyAccess"),
       Rule(TRUE, "bind|2bind", "Binding"),
       Rule(TRUE, "\\[", "HookOpen"),
       Rule(TRUE, "\\]", "HookClose"),
       Rule(TRUE, ",", "Comma"),
       Rule(FALSE, "\\s+", "Whitespace"),
       Rule(TRUE, "[^\\[\\]\\(\\)$,\\s]+", "Text") >>

Versions == {"main", "p2", "p4", "p5"}

RulesOf(v) ==
    CASE v = "main" -> tokenizer
      [] v = "p2" -> tokenizer_p2
      [] v = "p4" -> tokenizer_p4
      [] v = "p5" -> tokenizer_p5

(***************************************************************************)
(* The lexer buildLexer returns.  parseNext tries every rule on the rest   *)
(* of the input and keeps the longest text, the earliest rule on a tie; no  *)
(* rule matching is a TokenError.  parseNextAvailable skips the tokens of   *)
(* rules marked false.                                                      *)
(***************************************************************************)
NoToken == [kind |-> "", text |-> <<>>, keep |-> FALSE, end |-> 0]

\* regexp.test(subString) with regexp.lastIndex = l when it is called: the
\* search starts l characters into the rest of the input, where no pattern
\* anchored by ^ matches any more
test(re, s, i, l) ==
    IF l = 0
    THEN MatchEnd(re, s, i)
    ELSE CASE re = "'s|its|of" -> SearchFrom(s, i + l, <<L_its, L_of>>)
           [] re = "bind|2bind" -> SearchFrom(s, i + l, <<L_2bind>>)
           [] OTHER -> 0

\* the reset left out: every pattern is tested from where its last test ended
lastIndexKept(li) == li

\* regexp.lastIndex = 0, for every rule, before its test; li holds what the
\* tests before left in the lastIndex of the rules' patterns
lastIndex0(li) == [k \in 1..Len(li) |-> 0]

\* li is the lastIndex of every rule's pattern when parseNext is called;
\* the result carries what the tests leave there
parseNext(v, s, i, li) ==
    Let(RulesOf(v), LAMBDA R :
    Let(lastIndex0(li), LAMBDA l0 :
    Let([k \in 1..Len(R) |-> test(R[k].re, s, i, l0[k])] \o <<>>, LAMBDA e :
    Let([k \in 1..Len(R) |-> IF e[k] = 0 THEN 0 ELSE e[k] - i] \o <<>>, LAMBDA li2 :
    Let(Max({e[k] : k \in 1..Len(R)}), LAMBDA best :
        IF best = 0
        THEN [kind |-> "", text |-> <<>>, keep |-> FALSE, end |-> 0, li |-> li2]
        ELSE Let(R[Min({k \in 1..Len(R) : e[k] = best})], LAMBDA r :
                 [kind |-> r.kind, text |-> SubSeq(s, i, best - 1),
                  keep |-> r.keep, end |-> best, li |-> li2]))))))

\* [st |-> "token", tok, next] | [st |-> "eof"] | [st |-> "error"]
RECURSIVE parseNextAvailable(_, _, _, _)
parseNextAvailable(v, s, i, li) ==
    IF i > Len(s)
    THEN [st |-> "eof", tok |-> NoToken, next |-> i, li |-> li]
    ELSE Let(parseNext(v, s, i, li), LAMBDA t :
             IF t.kind = ""
             THEN [st |-> "error", tok |-> NoToken, next |-> i, li |-> t.li]
             ELSE IF t.keep
             THEN [st |-> "token", tok |-> [kind |-> t.kind, text |-> t.text],
                   next |-> t.end, li |-> t.li]
             ELSE parseNextAvailable(v, s, t.end, t.li))

(***************************************************************************)
(* Values.  A JavaScript string is a sequence of characters; undefined and *)
(* null are the records below, so that every value a field may hold is a    *)
(* record or a sequence and can be told apart by its type field.            *)
(***************************************************************************)
Null == [type |-> "null"]

\* the result of nil(), the second alternative of opt()
None == [some |-> FALSE]

Some(v) == [some |-> TRUE, v |-> v]

\* x || Null, for the result of an opt()
OrNull(x) == IF x.some THEN x.v ELSE Null

\* x || [], for the result of an opt()
OrEmpty(x) == IF x.some THEN x.v ELSE <<>>

(***************************************************************************)
(* Exceptions: the template of the message and the values put into it.     *)
(***************************************************************************)
NoThrow == [tmpl |-> "", strs |-> <<>>, nums |-> <<>>]

Exc(tmpl, strs, nums) == [tmpl |-> tmpl, strs |-> strs, nums |-> nums]

\* TokenError of LexerImpl.parseNext
TokenizeError == Exc("Unable to tokenize the rest of the input", <<>>, <<>>)

(***************************************************************************)
(* Parser outputs and the combinators of typescript-parsec.  T holds the   *)
(* kept tokens lexed before the first TokenError (toks), whether there was  *)
(* one (bad), and the outputs of the rules computed so far (memo).  Tokens are lexed lazily, by token.next: consuming the    *)
(* last token before a TokenError throws it.                                *)
(***************************************************************************)
\* cs \o <<>> is cs, computed once
Ok(cs) == [cs |-> cs \o <<>>, th |-> NoThrow]

Fail == Ok(<<>>)

Thrown(e) == [cs |-> <<>>, th |-> e]

IsThrown(o) == o.th.tmpl # ""

Cand(r, n) == [r |-> r, n |-> n]

\* tok(kind)
tok(T, i, kind) ==
    IF i <= Len(T.toks) /\ T.toks[i].kind = kind
    THEN IF i = Len(T.toks) /\ T.bad
         THEN Thrown(TokenizeError)
         ELSE Ok(<<Cand(T.toks[i], i + 1)>>)
    ELSE Fail

\* nil()
nil(i) == Ok(<<Cand(None, i)>>)

RECURSIVE Flatten(_)
Flatten(ss) == IF ss = <<>> THEN <<>> ELSE Head(ss) \o Flatten(Tail(ss))

\* the outputs of parsers run one after the other: the first exception
\* thrown ends the run, otherwise the candidates follow each other
Join(outs) ==
    LET os == outs \o <<>>
        thr == {k \in 1..Len(os) : IsThrown(os[k])}
    IN  IF thr # {}
        THEN os[Min(thr)]
        ELSE Ok(Flatten([k \in 1..Len(os) |-> os[k].cs]))

\* alt(p1, p2, ...): every alternative is run; outs are their outputs
alt(outs) == Join(outs)

\* opt(p) is alt(p, nil()); o is p's output at i
opt(o, i) ==
    IF IsThrown(o)
    THEN o
    ELSE Ok([k \in 1..Len(o.cs) |-> Cand(Some(o.cs[k].r), o.cs[k].n)] \o nil(i).cs)

\* the first parser of a seq(): results become one-element tuples
seq1(o) ==
    IF IsThrown(o)
    THEN o
    ELSE Ok([k \in 1..Len(o.cs) |-> Cand(<<o.cs[k].r>>, o.cs[k].n)])

\* the next parser of a seq(): outs[k] is its output at prev.cs[k].n
seqNext(prev, outs) ==
    IF IsThrown(prev)
    THEN prev
    ELSE LET os == outs \o <<>>
         IN  Join([k \in 1..Len(prev.cs) |->
                     IF IsThrown(os[k])
                     THEN os[k]
                     ELSE Ok([j \in 1..Len(os[k].cs) |->
                                Cand(Append(prev.cs[k].r, os[k].cs[j].r),
                                     os[k].cs[j].n)])])

\* seq(p1, ..., pn): the parsers run one after the other, each on the
\* candidates of the one before; steps are their outputs, the last is seq's
seq(steps) == steps[Len(steps)]

\* apply(p, f)
apply(o, f(_)) ==
    IF IsThrown(o)
    THEN o
    ELSE Ok([k \in 1..Len(o.cs) |-> Cand(f(o.cs[k].r), o.cs[k].n)])

\* apply(p, f) for a callback that may throw: f returns [val, th]
applyThrowing(o, f(_)) ==
    IF IsThrown(o)
    THEN o
    ELSE LET fs == [k \in 1..Len(o.cs) |-> f(o.cs[k].r)]
             thr == {k \in 1..Len(o.cs) : fs[k].th.tmpl # ""}
         IN  IF thr # {}
             THEN Thrown(fs[Min(thr)].th)
             ELSE Ok([k \in 1..Len(o.cs) |-> Cand(fs[k].val, o.cs[k].n)])

Reverse(s) == [k \in 1..Len(s) |-> s[Len(s) + 1 - k]]

\* rule.parse(token): a parser is a function of the token it starts at, so
\* a rule's output at a token is computed once and kept in T.memo
Parse(tag, T, i) == T.memo[tag][i]

\* repr(p): every number of repetitions, found breadth first
RECURSIVE reprLoop(_, _, _, _)
reprLoop(tag, T, res, k) ==
    IF k > Len(res)
    THEN Ok(res)
    ELSE LET step == res[k]
             o == Parse(tag, T, step.n)
             more == SelectSeq(o.cs, LAMBDA c : c.n # step.n)
         IN  IF IsThrown(o)
             THEN o
             ELSE reprLoop(tag, T,
                           res \o [j \in 1..Len(more) |->
                                     Cand(Append(step.r, more[j].r), more[j].n)],
                           k + 1)

\* rep(p): repr(p) with the candidates reversed
rep(tag, T, i) ==
    LET o == reprLoop(tag, T, <<Cand(<<>>, i)>>, 1)
    IN  IF IsThrown(o) THEN o ELSE Ok(Reverse(o.cs))

\* kright(tok(sep), p)
kright(sep, tag, T, i) ==
    LET s1 == seq1(tok(T, i, sep))
        s2 == seqNext(s1, [k \in 1..Len(s1.cs) |-> Parse(tag, T, s1.cs[k].n)])
    IN  apply(seq(<<s1, s2>>), LAMBDA r : r[2])

\* rep_sc(p), p the rule named tag: rounds of one more repetition, until a
\* round in which no candidate advances; the candidates of the round before
\* stay
RECURSIVE rep_sc(_, _, _)
rep_sc(tag, T, steps) ==
    LET outs == [k \in 1..Len(steps) |-> Parse(tag, T, steps[k].n)]
        thr == {k \in 1..Len(steps) : IsThrown(outs[k])}
        next == Flatten([k \in 1..Len(steps) |->
                    LET more == SelectSeq(outs[k].cs, LAMBDA c : c.n # steps[k].n)
                    IN  [j \in 1..Len(more) |->
                           Cand(Append(steps[k].r, more[j].r), more[j].n)]])
    IN  IF thr # {}
        THEN outs[Min(thr)]
        ELSE IF next = <<>>
        THEN Ok(steps)
        ELSE rep_sc(tag, T, next)

\* list_sc(p, s): p, then rep_sc(kright(s, p)); tag names p and more names
\* kright(s, p)
list_sc(tag, more, T, i) ==
    LET s1 == seq1(Parse(tag, T, i))
        s2 == seqNext(s1, [k \in 1..Len(s1.cs) |->
                             rep_sc(more, T, <<Cand(<<>>, s1.cs[k].n)>>)])
    IN  apply(seq(<<s1, s2>>), LAMBDA r : <<r[1]>> \o r[2])

\* expectEOF left out: every candidate is passed on
expectEOF_anyEnd(T, o) == o

\* expectEOF: the candidates that consumed every token
expectEOF(T, o) ==
    IF IsThrown(o)
    THEN o
    ELSE LET done == SelectSeq(o.cs, LAMBDA c : c.n = Len(T.toks) + 1)
         IN  IF done = <<>>
             THEN Thrown(Exc("expectEOF: the input is not consumed", <<>>, <<>>))
             ELSE Ok(done)

\* expectSingleResult: [ok, value, error]
expectSingleResult(o) ==
    IF IsThrown(o)
    THEN [ok |-> FALSE, value |-> Null, error |-> o.th]
    ELSE IF Len(o.cs) = 0
    THEN [ok |-> FALSE, value |-> Null,
          error |-> Exc("No result is returned.", <<>>, <<>>)]
    ELSE IF Len(o.cs) # 1
    THEN [ok |-> FALSE, value |-> Null,
          error |-> Exc("Multiple results are returned.", <<>>, <<>>)]
    ELSE [ok |-> TRUE, value |-> o.cs[1].r, error |-> NoThrow]

(***************************************************************************)
(* Conversions the callbacks use.                                          *)
(***************************************************************************)
\* text.slice(1, -1)
slice_1_m1(text) == SubSeq(text, 2, Len(text) - 1)

\* text.slice(1)
slice_1(text) == SubSeq(text, 2, Len(text))

DigitVal(c) ==
    CASE c = "0" -> 0 [] c = "1" -> 1 [] c = "2" -> 2 [] c = "3" -> 3
      [] c = "4" -> 4 [] c = "5" -> 5 [] c = "6" -> 6 [] c = "7" -> 7
      [] c = "8" -> 8 [] c = "9" -> 9

RECURSIVE NatOf(_)
NatOf(ds) ==
    IF ds = <<>> THEN 0 ELSE 10 * NatOf(SubSeq(ds, 1, Len(ds) - 1)) + DigitVal(ds[Len(ds)])

RECURSIVE DropTrailingZeros(_)
DropTrailingZeros(ds) ==
    IF ds # <<>> /\ ds[Len(ds)] = "0"
    THEN DropTrailingZeros(SubSeq(ds, 1, Len(ds) - 1))
    ELSE ds

\* parseFloat of a Number token's text, \d+(\.\d+)?: the integer part as a
\* number and the digits of the fraction that count
parseFloat(text) ==
    LET e == SpanIn(text, 1, Digit)
    IN  [int |-> NatOf(SubSeq(text, 1, e - 1)),
         frac |-> DropTrailingZeros(SubSeq(text, e + 1, Len(text)))]

\* text.trim()
RECURSIVE trim(_)
trim(text) ==
    IF text # <<>> /\ text[1] \in SpaceCh THEN trim(Tail(text))
    ELSE IF text # <<>> /\ text[Len(text)] \in SpaceCh
    THEN trim(SubSeq(text, 1, Len(text) - 1))
    ELSE text

\* array.join("")
join(texts) == Flatten(texts)

(***************************************************************************)
(* Macro names, and looking a name up in a MACRO_ARG_PATTERNS object: its  *)
(* own keys first, then the keys every object inherits.                     *)
(***************************************************************************)
N_set == <<"s", "e", "t">>

N_link == <<"l", "i", "n", "k">>

N_if == <<"i", "f">>

N_print == <<"p", "r", "i", "n", "t">>

N_a == <<"a">>

N_dm == <<"d", "m">>

N_live == <<"l", "i", "v", "e">>

N_history == <<"h", "i", "s", "t", "o", "r", "y">>

N_visited == <<"v", "i", "s", "i", "t", "e", "d">>

N_m == <<"m">>

N_constructor == <<"c", "o", "n", "s", "t", "r", "u", "c", "t", "o", "r">>

N_toString == <<"t", "o", "S", "t", "r", "i", "n", "g">>

Str(chars) == [type |-> "string", value |-> chars]

Undefined == [type |-> "undefined"]

\* names an object literal answers to without having them as keys
ObjectPrototypeKeys == {N_constructor, N_toString}

Entry(name, pattern, keyword) ==
    [name |-> name, pattern |-> pattern, keyword |-> keyword]

\* table[name]: the entry or, for an inherited key, a value that is truthy
\* and has neither pattern nor keyword; Undefined otherwise
Lookup(table, name) ==
    LET own == {k \in 1..Len(table) : table[k].name = name}
    IN  IF own # {}
        THEN [type |-> "entry", pattern |-> table[Min(own)].pattern,
              keyword |-> table[Min(own)].keyword]
        ELSE IF name \in ObjectPrototypeKeys
        THEN [type |-> "inherited", pattern |-> Undefined, keyword |-> Undefined]
        ELSE Undefined

(***************************************************************************)
(* src/utils/parseHarlowe.ts, the exported parser.                         *)
(***************************************************************************)
LITERAL(T, i) ==
    alt(<< apply(tok(T, i, "StringLiteral"),
                 LAMBDA t : [type |-> "String", value |-> slice_1_m1(t.text)]),
           apply(tok(T, i, "Time"),
                 LAMBDA t : [type |-> "Time", value |-> t.text]),
           apply(tok(T, i, "Number"),
                 LAMBDA t : [type |-> "Number", value |-> parseFloat(t.text)]),
           apply(tok(T, i, "Boolean"),
                 LAMBDA t : [type |-> "Boolean", value |-> (t.text = L_true)]),
           apply(tok(T, i, "Variable"),
                 LAMBDA t : [type |-> "Variable", name |-> slice_1(t.text)]) >>)

TERM(T, i) == Parse("LITERAL", T, i)

ARITHMETIC_EXPR(T, i) ==
    LET s1 == seq1(Parse("TERM", T, i))
        tail(j) ==
            LET a == seq1(tok(T, j, "ArithmeticOp"))
            IN  seqNext(a, [k \in 1..Len(a.cs) |-> Parse("TERM", T, a.cs[k].n)])
        s2 == seqNext(s1, [k \in 1..Len(s1.cs) |->
                             opt(tail(s1.cs[k].n), s1.cs[k].n)])
    IN  apply(seq(<<s1, s2>>), LAMBDA r :
            IF ~r[2].some
            THEN r[1]
            ELSE [type |-> "ArithmeticExpr", operator |-> r[2].v[1].text,
                  left |-> r[1], right |-> r[2].v[2]])

COMPARATIVE_EXPR(T, i) ==
    LET s1 == seq1(Parse("ARITHMETIC_EXPR", T, i))
        s2 == seqNext(s1, [k \in 1..Len(s1.cs) |->
                             tok(T, s1.cs[k].n, "ComparisonOp")])
        s3 == seqNext(s2, [k \in 1..Len(s2.cs) |->
                             Parse("ARITHMETIC_EXPR", T, s2.cs[k].n)])
    IN  apply(seq(<<s1, s2, s3>>), LAMBDA r :
            [type |-> "ComparisonExpr", operator |-> r[2].text,
             left |-> r[1], right |-> r[3]])

EXPRESSION(T, i) == alt(<<Parse("COMPARATIVE_EXPR", T, i), Parse("ARITHMETIC_EXPR", T, i)>>)

KEYWORD_ARG(T, i) ==
    LET s1 == seq1(Parse("EXPRESSION", T, i))
        s2 == seqNext(s1, [k \in 1..Len(s1.cs) |->
                             alt(<<tok(T, s1.cs[k].n, "To"),
                                   tok(T, s1.cs[k].n, "Arrow")>>)])
        s3 == seqNext(s2, [k \in 1..Len(s2.cs) |-> Parse("EXPRESSION", T, s2.cs[k].n)])
    IN  apply(seq(<<s1, s2, s3>>), LAMBDA r :
            [type |-> "KeywordArg",
             keyword |-> IF r[2].kind = "To" THEN L_to ELSE L_arrow,
             left |-> r[1], right |-> r[3]])

HOOK(T, i) ==
    apply(tok(T, i, "HookContent"),
          LAMBDA t : [type |-> "Hook", content |-> slice_1_m1(t.text)])

\* an argument rule whose two alternatives accept the same tokens, as the
\* two argument lists of part_004 do
MACRO_ARG_overlapping(T, i) == alt(<<Parse("EXPRESSION", T, i), Parse("EXPRESSION", T, i)>>)

MACRO_ARG(T, i) == alt(<<Parse("KEYWORD_ARG", T, i), Parse("EXPRESSION", T, i)>>)

\* kright(tok(TokenKind.Comma), MACRO_ARG), inside list_sc
MoreArgs(T, i) == kright("Comma", "MACRO_ARG", T, i)

\* list_sc(MACRO_ARG, tok(TokenKind.Comma))
Args(T, i) == list_sc("MACRO_ARG", "MoreArgs", T, i)

MACRO_ARG_PATTERNS ==
    << Entry(N_set, <<"KeywordArg">>, Str(L_to)),
       Entry(N_link, <<"KeywordArg">>, Str(L_arrow)),
       Entry(N_if, <<"Expression">>, Null),
       Entry(N_print, <<"Expression">>, Null),
       Entry(N_a, <<"Expression">>, Null),
       Entry(N_dm, <<"Expression", "Expression", "Expression", "Expression">>, Null),
       Entry(N_live, <<"Expression">>, Null),
       Entry(N_history, <<>>, Null),
       Entry(N_visited, <<"Expression">>, Null),
       Entry(N_m, <<"Expression">>, Null) >>

\* the callback of MACRO; r is [macroName, args, _, hookContent]
MacroNode(r) ==
    LET name == slice_1_m1(r[1].text)
        macroPattern == Lookup(MACRO_ARG_PATTERNS, name)
    IN  IF macroPattern.type = "undefined"
        THEN [type |-> "UnknownMacro", name |-> name, rawContent |-> r[1].text]
        ELSE [type |-> "Macro", name |-> name, args |-> OrEmpty(r[2]),
              pattern |-> macroPattern.pattern, hookContent |-> OrNull(r[4])]

MACRO(T, i) ==
    LET s1 == seq1(tok(T, i, "MacroName"))
        s2 == seqNext(s1, [k \in 1..Len(s1.cs) |->
                             opt(Parse("Args", T, s1.cs[k].n),
                                 s1.cs[k].n)])
        s3 == seqNext(s2, [k \in 1..Len(s2.cs) |-> tok(T, s2.cs[k].n, "RParen")])
        s4 == seqNext(s3, [k \in 1..Len(s3.cs) |->
                             opt(Parse("HOOK", T, s3.cs[k].n), s3.cs[k].n)])
    IN  apply(seq(<<s1, s2, s3, s4>>), MacroNode)

\* expressions.filter(Boolean): every node is an object, and objects are truthy
filterBoolean(expressions) == SelectSeq(expressions, LAMBDA e : e.type # "")

PROGRAM(T, i) ==
    apply(rep("MACRO", T, i),
          LAMBDA e : [type |-> "Program", expressions |-> filterBoolean(e)])

\* the error parseHarlowe rethrows: a prefix, the input where the message
\* holds it, and the error caught
Rethrown(prefix, text, r) ==
    IF r.ok
    THEN r
    ELSE [ok |-> FALSE, value |-> Null,
          error |-> [prefix |-> prefix, input |-> text, cause |-> r.error]]

\* what tokenizer.parse(input) does before any rule runs: undefined for an
\* input with no kept token, a TokenError when the first one cannot be cut
NoTokens(T) == T.toks = <<>>

FirstToken(T) ==
    IF T.bad
    THEN Thrown(TokenizeError)
    ELSE Thrown(Exc("Tokenization failed", <<>>, <<>>))

parseHarlowe(text, T) ==
    Rethrown("Error parsing: ", text,
             IF NoTokens(T)
             THEN expectSingleResult(FirstToken(T))
             ELSE expectSingleResult(expectEOF(T, Parse("PROGRAM", T, 1))))

(***************************************************************************)
(* src/unnamed/part_002: links, nested macros, hooks cut into tokens.      *)
(* Rules that refer to a later rule do so by name.                          *)
(***************************************************************************)
VALUE_p2(T, i) ==
    alt(<< apply(tok(T, i, "StringLiteral"),
                 LAMBDA t : [type |-> "String", value |-> slice_1_m1(t.text)]),
           apply(tok(T, i, "Number"),
                 LAMBDA t : [type |-> "Number", value |-> parseFloat(t.text)]),
           apply(tok(T, i, "Variable"),
                 LAMBDA t : [type |-> "Variable", name |-> slice_1(t.text)]),
           apply(tok(T, i, "Time"),
                 LAMBDA t : [type |-> "Time", value |-> t.text]),
           Parse("MACRO_p2", T, i) >>)

\* the alternatives repeated inside HOOK_CONTENT; a piece of text is a string
HookItem_p2(T, i) ==
    alt(<< apply(tok(T, i, "Text"), LAMBDA t : Str(t.text)),
           apply(tok(T, i, "Space"), LAMBDA t : Str(t.text)),
           Parse("MACRO_p2", T, i),
           apply(tok(T, i, "StringLiteral"), LAMBDA t : Str(t.text)) >>)

\* rep(alt(...)) inside HOOK_CONTENT
HookItems_p2(T, i) == rep("HookItem_p2", T, i)

HOOK_CONTENT_p2(T, i) ==
    LET s1 == seq1(tok(T, i, "HookOpen"))
        s2 == seqNext(s1, [k \in 1..Len(s1.cs) |->
                             Parse("HookItems_p2", T, s1.cs[k].n)])
        s3 == seqNext(s2, [k \in 1..Len(s2.cs) |->
                             tok(T, s2.cs[k].n, "HookClose")])
    IN  apply(seq(<<s1, s2, s3>>), LAMBDA r : [type |-> "HookContent", content |-> r[2]])

\* the alternatives repeated inside LINK
LinkItem_p2(T, i) == alt(<<tok(T, i, "Text"), tok(T, i, "Space")>>)

\* rep(alt(tok(TokenKind.Text), tok(TokenKind.Space))) inside LINK
LinkItems_p2(T, i) == rep("LinkItem_p2", T, i)

\* tokens.map((t) => t.text).join("").trim()
LinkText_p2(tokens) == trim(join([k \in 1..Len(tokens) |-> tokens[k].text]))

LINK_p2(T, i) ==
    LET a1 == seq1(tok(T, i, "LinkOpen"))
        a2 == seqNext(a1, [k \in 1..Len(a1.cs) |->
                             Parse("LinkItems_p2", T, a1.cs[k].n)])
        a3 == seqNext(a2, [k \in 1..Len(a2.cs) |-> tok(T, a2.cs[k].n, "Arrow")])
        a4 == seqNext(a3, [k \in 1..Len(a3.cs) |->
                             Parse("LinkItems_p2", T, a3.cs[k].n)])
        a5 == seqNext(a4, [k \in 1..Len(a4.cs) |->
                             tok(T, a4.cs[k].n, "LinkClose")])
        b3 == seqNext(a2, [k \in 1..Len(a2.cs) |->
                             tok(T, a2.cs[k].n, "LinkClose")])
    IN  alt(<< apply(seq(<<a1, a2, a3, a4, a5>>), LAMBDA r :
                   [type |-> "Link", text |-> LinkText_p2(r[2]),
                    target |-> LinkText_p2(r[4])]),
               apply(seq(<<a1, a2, b3>>), LAMBDA r :
                   [type |-> "Link", text |-> LinkText_p2(r[2]),
                    target |-> LinkText_p2(r[2])]) >>)

\* the operator tokens EXPRESSION accepts
OperatorKinds_p2 ==
    <<"Plus", "Minus", "Multiply", "Divide", "GreaterThan", "LessThan",
      "ComparisonOp">>

EXPRESSION_p2(T, i) ==
    LET s1 == seq1(Parse("VALUE_p2", T, i))
        tail(j) ==
            LET a == seq1(alt([k \in 1..Len(OperatorKinds_p2) |->
                                 tok(T, j, OperatorKinds_p2[k])]))
            IN  seqNext(a, [k \in 1..Len(a.cs) |-> Parse("VALUE_p2", T, a.cs[k].n)])
        s2 == seqNext(s1, [k \in 1..Len(s1.cs) |->
                             opt(tail(s1.cs[k].n), s1.cs[k].n)])
    IN  apply(seq(<<s1, s2>>), LAMBDA r :
            IF ~r[2].some
            THEN r[1]
            ELSE [type |-> "Operation", operator |-> r[2].v[1].text,
                  left |-> r[1], right |-> r[2].v[2]])

\* seq(EXPRESSION, tok(kind), EXPRESSION)
Infix_p2(T, i, kind) ==
    LET s1 == seq1(Parse("EXPRESSION_p2", T, i))
        s2 == seqNext(s1, [k \in 1..Len(s1.cs) |-> tok(T, s1.cs[k].n, kind)])
    IN  seqNext(s2, [k \in 1..Len(s2.cs) |-> Parse("EXPRESSION_p2", T, s2.cs[k].n)])

MACRO_ARG_p2(T, i) ==
    alt(<< apply(Infix_p2(T, i, "To"), LAMBDA r :
               [type |-> "Assignment", left |-> r[1], right |-> r[3]]),
           apply(Infix_p2(T, i, "Arrow"), LAMBDA r :
               [type |-> "Link", text |-> r[1], target |-> r[3]]),
           Parse("EXPRESSION_p2", T, i) >>)

\* kright(tok(TokenKind.Comma), MACRO_ARG), inside list_sc
MoreArgs_p2(T, i) == kright("Comma", "MACRO_ARG_p2", T, i)

\* list_sc(MACRO_ARG, tok(TokenKind.Comma))
Args_p2(T, i) == list_sc("MACRO_ARG_p2", "MoreArgs_p2", T, i)

MACRO_p2(T, i) ==
    LET s1 == seq1(tok(T, i, "MacroName"))
        s2 == seqNext(s1, [k \in 1..Len(s1.cs) |->
                             opt(Parse("Args_p2", T, s1.cs[k].n),
                                 s1.cs[k].n)])
        s3 == seqNext(s2, [k \in 1..Len(s2.cs) |-> tok(T, s2.cs[k].n, "RParen")])
        s4 == seqNext(s3, [k \in 1..Len(s3.cs) |->
                             opt(Parse("HOOK_CONTENT_p2", T, s3.cs[k].n), s3.cs[k].n)])
    IN  apply(seq(<<s1, s2, s3, s4>>), LAMBDA r :
            [type |-> "Macro", name |-> slice_1_m1(r[1].text),
             args |-> OrEmpty(r[2]), hook |-> OrNull(r[4])])

\* the alternatives repeated by PROGRAM
ProgramItem_p2(T, i) ==
    alt(<< Parse("MACRO_p2", T, i),
           Parse("LINK_p2", T, i),
           apply(tok(T, i, "Text"),
                 LAMBDA t : [type |-> "Text", content |-> t.text]),
           apply(tok(T, i, "Space"),
                 LAMBDA t : [type |-> "Space", content |-> t.text]) >>)

PROGRAM_p2(T, i) ==
    apply(rep("ProgramItem_p2", T, i),
          LAMBDA e : [type |-> "Program", expressions |-> filterBoolean(e)])

parseHarlowe_p2(text, T) ==
    Rethrown("Error parsing: ", text,
             IF NoTokens(T)
             THEN expectSingleResult(FirstToken(T))
             ELSE expectSingleResult(expectEOF(T, Parse("PROGRAM_p2", T, 1))))

(***************************************************************************)
(* src/unnamed/part_004: a macro's arguments are validated against the     *)
(* pattern of its name, and the callback throws when they do not fit.       *)
(***************************************************************************)
MACRO_ARG_PATTERNS_p4 ==
    << Entry(N_set, <<"Variable", "Keyword", "Value">>, Str(L_to)),
       Entry(N_link, <<"StringLiteral", "Keyword", "StringLiteral">>, Str(L_arrow)),
       Entry(N_if, <<"Value">>, Null),
       Entry(N_print, <<"Value">>, Null) >>

validateArgType(arg, expectedType) ==
    CASE expectedType = "Variable" -> arg.type = "Variable"
      [] expectedType = "StringLiteral" -> arg.type = "String"
      [] expectedType = "Value" ->
            arg.type \in {"String", "Number", "Boolean", "Variable"}
      [] OTHER -> TRUE

VALUE_p4(T, i) ==
    alt(<< apply(tok(T, i, "StringLiteral"),
                 LAMBDA t : [type |-> "String", value |-> slice_1_m1(t.text)]),
           apply(tok(T, i, "Number"),
                 LAMBDA t : [type |-> "Number", value |-> parseFloat(t.text)]),
           apply(tok(T, i, "Boolean"),
                 LAMBDA t : [type |-> "Boolean", value |-> (t.text = L_true)]),
           apply(tok(T, i, "Variable"),
                 LAMBDA t : [type |-> "Variable", name |-> slice_1(t.text)]),
           apply(tok(T, i, "Text"),
                 LAMBDA t : [type |-> "Text", content |-> trim(t.text)]) >>)

STRUCTURED_ARG_p4(T, i) ==
    LET s1 == seq1(Parse("VALUE_p4", T, i))
        tail(j) ==
            LET a == seq1(tok(T, j, "Keyword"))
            IN  seqNext(a, [k \in 1..Len(a.cs) |-> Parse("VALUE_p4", T, a.cs[k].n)])
        s2 == seqNext(s1, [k \in 1..Len(s1.cs) |->
                             opt(tail(s1.cs[k].n), s1.cs[k].n)])
    IN  apply(seq(<<s1, s2>>), LAMBDA r :
            IF r[2].some
            THEN [type |-> "StructuredArg", firstPart |-> r[1],
                  keyword |-> r[2].v[1].text, secondPart |-> r[2].v[2]]
            ELSE r[1])

\* kright(tok(TokenKind.Comma), STRUCTURED_ARG), inside list_sc
MoreStructured_p4(T, i) == kright("Comma", "STRUCTURED_ARG_p4", T, i)

\* list_sc(STRUCTURED_ARG, tok(TokenKind.Comma))
StructuredArgs_p4(T, i) == list_sc("STRUCTURED_ARG_p4", "MoreStructured_p4", T, i)

\* kright(tok(TokenKind.Comma), VALUE), inside list_sc
MoreValues_p4(T, i) == kright("Comma", "VALUE_p4", T, i)

\* list_sc(VALUE, tok(TokenKind.Comma))
Values_p4(T, i) == list_sc("VALUE_p4", "MoreValues_p4", T, i)

\* `${keyword}` for a keyword of the table
KeywordText(k) ==
    CASE k.type = "string" -> k.value
      [] k.type = "null" -> <<"n", "u", "l", "l">>
      [] k.type = "undefined" -> <<"u", "n", "d", "e", "f", "i", "n", "e", "d">>

Returned(v) == [val |-> v, th |-> NoThrow]

Raised(e) == [val |-> Null, th |-> e]

\* the structured branch of MACRO's callback: the message of the last check
\* that failed, or none
StructuredMessage(name, macroPattern, structuredArg) ==
    LET m1 == IF Str(structuredArg.keyword) # macroPattern.keyword
              THEN Exc("Expected keyword '%s' but got '%s'",
                       <<KeywordText(macroPattern.keyword), structuredArg.keyword>>,
                       <<>>)
              ELSE NoThrow
        m2 == IF ~validateArgType(structuredArg.firstPart, macroPattern.pattern[1])
              THEN Exc("Invalid type for first argument in %s macro", <<name>>, <<>>)
              ELSE m1
    IN  IF /\ Len(macroPattern.pattern) >= 3
           /\ ~validateArgType(structuredArg.secondPart, macroPattern.pattern[3])
        THEN Exc("Invalid type for second argument in %s macro", <<name>>, <<>>)
        ELSE m2

\* the simple branch: the count is checked first, then every argument, and
\* the last failure's message stays
SimpleMessage(name, macroPattern, args) ==
    LET pattern == macroPattern.pattern
        wrong == {k \in 1..Len(args) :
                    k <= Len(pattern) /\ ~validateArgType(args[k], pattern[k])}
    IN  IF wrong # {}
        THEN Exc("Invalid type for argument %d in %s macro", <<name>>, <<Max(wrong)>>)
        ELSE IF Len(args) # Len(pattern)
        THEN Exc("Expected %d arguments for %s macro, got %d",
                 <<name>>, <<Len(pattern), Len(args)>>)
        ELSE NoThrow

\* the callback of MACRO; r is [macroName, args, _]
MacroNode_p4(r) ==
    LET name == slice_1_m1(r[1].text)
        args == r[2]
        macroPattern == Lookup(MACRO_ARG_PATTERNS_p4, name)
        structured == args[1].type = "StructuredArg"
        message == IF structured
                   THEN StructuredMessage(name, macroPattern, args[1])
                   ELSE SimpleMessage(name, macroPattern, args)
        processedArgs == IF structured
                         THEN <<args[1].firstPart, args[1].secondPart>>
                         ELSE args
    IN  IF macroPattern.type = "undefined"
        THEN Raised(Exc("Unknown macro type: %s", <<name>>, <<>>))
        ELSE IF macroPattern.type = "inherited"
        THEN Raised(Exc("Cannot read properties of undefined", <<>>, <<>>))
        ELSE IF message # NoThrow
        THEN Raised(message)
        ELSE Returned([type |-> "Macro", name |-> name, args |-> processedArgs,
                       pattern |-> macroPattern.pattern])

MACRO_p4(T, i) ==
    LET s1 == seq1(tok(T, i, "MacroName"))
        s2 == seqNext(s1, [k \in 1..Len(s1.cs) |->
                 alt(<<Parse("StructuredArgs_p4", T, s1.cs[k].n),
                       Parse("Values_p4", T, s1.cs[k].n)>>)])
        s3 == seqNext(s2, [k \in 1..Len(s2.cs) |-> tok(T, s2.cs[k].n, "RParen")])
    IN  applyThrowing(seq(<<s1, s2, s3>>), MacroNode_p4)

EXP_p4(T, i) == alt(<<Parse("MACRO_p4", T, i), Parse("VALUE_p4", T, i)>>)

parseHarlowe_p4(text, T) ==
    Rethrown("Parse error: ", <<>>,
             IF NoTokens(T)
             THEN expectSingleResult(FirstToken(T))
             ELSE expectSingleResult(expectEOF(T, Parse("EXP_p4", T, 1))))

(***************************************************************************)
(* src/unnamed/part_005: the keyword of a macro's first argument is        *)
(* checked against the table; a hook holds one expression.                  *)
(***************************************************************************)
LITERAL_p5(T, i) ==
    alt(<< apply(tok(T, i, "StringLiteral"),
                 LAMBDA t : [type |-> "String", value |-> slice_1_m1(t.text)]),
           apply(tok(T, i, "Number"),
                 LAMBDA t : [type |-> "Number", value |-> parseFloat(t.text)]),
           apply(tok(T, i, "Boolean"),
                 LAMBDA t : [type |-> "Boolean", value |-> (t.text = L_true)]),
           apply(tok(T, i, "Variable"),
                 LAMBDA t : [type |-> "Variable", name |-> slice_1(t.text)]) >>)

TERM_p5(T, i) == Parse("LITERAL_p5", T, i)

ARITHMETIC_EXPR_p5(T, i) ==
    LET s1 == seq1(Parse("TERM_p5", T, i))
        tail(j) ==
            LET a == seq1(tok(T, j, "ArithmeticOp"))
            IN  seqNext(a, [k \in 1..Len(a.cs) |-> Parse("TERM_p5", T, a.cs[k].n)])
        s2 == seqNext(s1, [k \in 1..Len(s1.cs) |->
                             opt(tail(s1.cs[k].n), s1.cs[k].n)])
    IN  apply(seq(<<s1, s2>>), LAMBDA r :
            IF ~r[2].some
            THEN r[1]
            ELSE [type |-> "ArithmeticExpr", operator |-> r[2].v[1].text,
                  left |-> r[1], right |-> r[2].v[2]])

COMPARATIVE_EXPR_p5(T, i) ==
    LET s1 == seq1(Parse("ARITHMETIC_EXPR_p5", T, i))
        s2 == seqNext(s1, [k \in 1..Len(s1.cs) |->
                             tok(T, s1.cs[k].n, "ComparisonOp")])
        s3 == seqNext(s2, [k \in 1..Len(s2.cs) |->
                             Parse("ARITHMETIC_EXPR_p5", T, s2.cs[k].n)])
    IN  apply(seq(<<s1, s2, s3>>), LAMBDA r :
            [type |-> "ComparisonExpr", operator |-> r[2].text,
             left |-> r[1], right |-> r[3]])

EXPRESSION_p5(T, i) ==
    alt(<<Parse("COMPARATIVE_EXPR_p5", T, i), Parse("ARITHMETIC_EXPR_p5", T, i)>>)

KEYWORD_ARG_p5(T, i) ==
    LET s1 == seq1(Parse("EXPRESSION_p5", T, i))
        s2 == seqNext(s1, [k \in 1..Len(s1.cs) |->
                             alt(<<tok(T, s1.cs[k].n, "To"),
                                   tok(T, s1.cs[k].n, "Arrow")>>)])
        s3 == seqNext(s2, [k \in 1..Len(s2.cs) |->
                             Parse("EXPRESSION_p5", T, s2.cs[k].n)])
    IN  apply(seq(<<s1, s2, s3>>), LAMBDA r :
            [type |-> "KeywordArg",
             keyword |-> IF r[2].kind = "To" THEN L_to ELSE L_arrow,
             left |-> r[1], right |-> r[3]])

MACRO_ARG_p5(T, i) ==
    alt(<<Parse("KEYWORD_ARG_p5", T, i), Parse("EXPRESSION_p5", T, i)>>)

MACRO_ARG_PATTERNS_p5 ==
    << Entry(N_set, <<"KeywordArg">>, Str(L_to)),
       Entry(N_link, <<"KeywordArg">>, Str(L_arrow)),
       Entry(N_if, <<"Expression">>, Null),
       Entry(N_print, <<"Expression">>, Null),
       Entry(N_a, <<"Expression">>, Null),
       Entry(N_dm, <<"Expression">>, Null),
       Entry(N_live, <<"Expression">>, Null) >>

HOOK_CONTENT_p5(T, i) ==
    LET s1 == seq1(tok(T, i, "HookOpen"))
        s2 == seqNext(s1, [k \in 1..Len(s1.cs) |->
                             Parse("EXPRESSION_p5", T, s1.cs[k].n)])
        s3 == seqNext(s2, [k \in 1..Len(s2.cs) |->
                             tok(T, s2.cs[k].n, "HookClose")])
    IN  apply(seq(<<s1, s2, s3>>), LAMBDA r :
            [type |-> "HookContent", content |-> r[2]])

\* kright(tok(TokenKind.Comma), MACRO_ARG), inside list_sc
MoreArgs_p5(T, i) == kright("Comma", "MACRO_ARG_p5", T, i)

\* list_sc(MACRO_ARG, tok(TokenKind.Comma))
Args_p5(T, i) == list_sc("MACRO_ARG_p5", "MoreArgs_p5", T, i)

\* the callback of MACRO; r is [macroName, args, _, hookContent]
MacroNode_p5(r) ==
    LET name == slice_1_m1(r[1].text)
        args == r[2]
        macroPattern == Lookup(MACRO_ARG_PATTERNS_p5, name)
    IN  IF macroPattern.type = "undefined"
        THEN Returned([type |-> "UnknownMacro", name |-> name,
                       rawContent |-> r[1].text])
        ELSE IF /\ macroPattern.keyword.type = "string"
                /\ \/ args[1].type # "KeywordArg"
                   \/ Str(args[1].keyword) # macroPattern.keyword
        THEN Raised(Exc("Macro %s requires keyword %s",
                        <<name, macroPattern.keyword.value>>, <<>>))
        ELSE Returned([type |-> "Macro", name |-> name, args |-> args,
                       pattern |-> macroPattern.pattern,
                       hookContent |-> OrNull(r[4])])

MACRO_p5(T, i) ==
    LET s1 == seq1(tok(T, i, "MacroName"))
        s2 == seqNext(s1, [k \in 1..Len(s1.cs) |-> Parse("Args_p5", T, s1.cs[k].n)])
        s3 == seqNext(s2, [k \in 1..Len(s2.cs) |-> tok(T, s2.cs[k].n, "RParen")])
        s4 == seqNext(s3, [k \in 1..Len(s3.cs) |->
                             opt(Parse("HOOK_CONTENT_p5", T, s3.cs[k].n), s3.cs[k].n)])
    IN  applyThrowing(seq(<<s1, s2, s3, s4>>), MacroNode_p5)

PROGRAM_p5(T, i) ==
    apply(rep("MACRO_p5", T, i),
          LAMBDA e : [type |-> "Program", expressions |-> filterBoolean(e)])

parseHarlowe_p5(text, T) ==
    Rethrown("Error parsing: ", text,
             IF NoTokens(T)
             THEN expectSingleResult(FirstToken(T))
             ELSE expectSingleResult(expectEOF(T, Parse("PROGRAM_p5", T, 1))))

(***************************************************************************)
(* The grammar of each parser: its rules, in an order in which every rule   *)
(* comes after the rules it runs on the same token, and the pattern of a    *)
(* rule by name.                                                            *)
(***************************************************************************)
RulesMain ==
    <<"LITERAL", "TERM", "ARITHMETIC_EXPR", "COMPARATIVE_EXPR", "EXPRESSION",
      "KEYWORD_ARG", "HOOK", "MACRO_ARG", "MoreArgs", "Args", "MACRO",
      "PROGRAM">>

RulesP2 ==
    <<"MACRO_p2", "VALUE_p2", "EXPRESSION_p2", "MACRO_ARG_p2", "MoreArgs_p2",
      "Args_p2", "HookItem_p2", "HookItems_p2", "HOOK_CONTENT_p2",
      "LinkItem_p2", "LinkItems_p2", "LINK_p2", "ProgramItem_p2", "PROGRAM_p2">>

RulesP4 ==
    <<"VALUE_p4", "STRUCTURED_ARG_p4", "MoreStructured_p4", "StructuredArgs_p4",
      "MoreValues_p4", "Values_p4", "MACRO_p4", "EXP_p4">>

RulesP5 ==
    <<"LITERAL_p5", "TERM_p5", "ARITHMETIC_EXPR_p5", "COMPARATIVE_EXPR_p5",
      "EXPRESSION_p5", "KEYWORD_ARG_p5", "MACRO_ARG_p5", "MoreArgs_p5",
      "Args_p5", "HOOK_CONTENT_p5", "MACRO_p5", "PROGRAM_p5">>

GrammarOf(v) ==
    CASE v = "main" -> RulesMain
      [] v = "p2" -> RulesP2
      [] v = "p4" -> RulesP4
      [] v = "p5" -> RulesP5

Pattern(tag, T, i) ==
    CASE tag = "LITERAL" -> LITERAL(T, i)
      [] tag = "TERM" -> TERM(T, i)
      [] tag = "ARITHMETIC_EXPR" -> ARITHMETIC_EXPR(T, i)
      [] tag = "COMPARATIVE_EXPR" -> COMPARATIVE_EXPR(T, i)
      [] tag = "EXPRESSION" -> EXPRESSION(T, i)
      [] tag = "KEYWORD_ARG" -> KEYWORD_ARG(T, i)
      [] tag = "HOOK" -> HOOK(T, i)
      [] tag = "MACRO_ARG" -> MACRO_ARG(T, i)
      [] tag = "MoreArgs" -> MoreArgs(T, i)
      [] tag = "Args" -> Args(T, i)
      [] tag = "MACRO" -> MACRO(T, i)
      [] tag = "PROGRAM" -> PROGRAM(T, i)
      [] tag = "MACRO_p2" -> MACRO_p2(T, i)
      [] tag = "VALUE_p2" -> VALUE_p2(T, i)
      [] tag = "EXPRESSION_p2" -> EXPRESSION_p2(T, i)
      [] tag = "MACRO_ARG_p2" -> MACRO_ARG_p2(T, i)
      [] tag = "MoreArgs_p2" -> MoreArgs_p2(T, i)
      [] tag = "Args_p2" -> Args_p2(T, i)
      [] tag = "HookItem_p2" -> HookItem_p2(T, i)
      [] tag = "HookItems_p2" -> HookItems_p2(T, i)
      [] tag = "LinkItems_p2" -> LinkItems_p2(T, i)
      [] tag = "HOOK_CONTENT_p2" -> HOOK_CONTENT_p2(T, i)
      [] tag = "LinkItem_p2" -> LinkItem_p2(T, i)
      [] tag = "LINK_p2" -> LINK_p2(T, i)
      [] tag = "ProgramItem_p2" -> ProgramItem_p2(T, i)
      [] tag = "PROGRAM_p2" -> PROGRAM_p2(T, i)
      [] tag = "VALUE_p4" -> VALUE_p4(T, i)
      [] tag = "STRUCTURED_ARG_p4" -> STRUCTURED_ARG_p4(T, i)
      [] tag = "MoreStructured_p4" -> MoreStructured_p4(T, i)
      [] tag = "StructuredArgs_p4" -> StructuredArgs_p4(T, i)
      [] tag = "MoreValues_p4" -> MoreValues_p4(T, i)
      [] tag = "Values_p4" -> Values_p4(T, i)
      [] tag = "MACRO_p4" -> MACRO_p4(T, i)
      [] tag = "EXP_p4" -> EXP_p4(T, i)
      [] tag = "LITERAL_p5" -> LITERAL_p5(T, i)
      [] tag = "TERM_p5" -> TERM_p5(T, i)
      [] tag = "ARITHMETIC_EXPR_p5" -> ARITHMETIC_EXPR_p5(T, i)
      [] tag = "COMPARATIVE_EXPR_p5" -> COMPARATIVE_EXPR_p5(T, i)
      [] tag = "EXPRESSION_p5" -> EXPRESSION_p5(T, i)
      [] tag = "KEYWORD_ARG_p5" -> KEYWORD_ARG_p5(T, i)
      [] tag = "MACRO_ARG_p5" -> MACRO_ARG_p5(T, i)
      [] tag = "MoreArgs_p5" -> MoreArgs_p5(T, i)
      [] tag = "Args_p5" -> Args_p5(T, i)
      [] tag = "HOOK_CONTENT_p5" -> HOOK_CONTENT_p5(T, i)
      [] tag = "MACRO_p5" -> MACRO_p5(T, i)
      [] tag = "PROGRAM_p5" -> PROGRAM_p5(T, i)

(***************************************************************************)
(* The inputs: passages written the ways the tests of src/tests/tests.ts   *)
(* and of the parsers write them.                                           *)
(***************************************************************************)
\* n spaces
Sp(n) == [k \in 1..n |-> " "]

Quoted(s) == <<"\"">> \o s \o <<"\"">>

\* (name: args)
Call(name, args) == <<"(">> \o name \o <<":">> \o args \o <<")">>

\* the most spaces written on a side of -> in a macro call
MaxWs == 2

\* the most spaces written inside a link's brackets and around prose
MaxPad == 1

N_bogusMacro == <<"b", "o", "g", "u", "s", "M", "a", "c", "r", "o">>

\* names that are not keys of any MACRO_ARG_PATTERNS
UnknownNames == {N_bogusMacro, N_constructor}

UnknownArgs == {<<" ", "1">>, <<" ", "1", ",", " ", "2">>}

UnknownHooks == {<<>>, <<"[", "h", "i", "]">>}

UnknownCalls ==
    {Call(n, a) \o h : n \in UnknownNames, a \in UnknownArgs, h \in UnknownHooks}

\* a keyword macro written with the other keyword
WrongKeywordCases ==
    { [text |-> Call(N_link, <<" ", "\"", "N", "e", "x", "t", "\"", " ", "t", "o", " ", "\"", "W", "r", "o", "n", "g", "\"">>), name |-> N_link,
       expected |-> L_arrow, actual |-> L_to],
      [text |-> Call(N_set, <<" ", "$", "v", " ", "-", ">", " ", "\"", "x", "\"">>), name |-> N_set,
       expected |-> L_to, actual |-> L_arrow] }

SetVars == {<<"c", "o", "m", "p", "a", "n", "i", "o", "n">>, <<"o", "f", "f", "s", "e", "t">>}

\* a literal as written and the node it stands for
LiteralCases ==
    { [text |-> Quoted(<<"G", "a", "l", "l", "i", "f", "r", "e", "y">>), node |-> [type |-> "String", value |-> <<"G", "a", "l", "l", "i", "f", "r", "e", "y">>]],
      [text |-> <<"1", "0">>, node |-> [type |-> "Number", value |-> [int |-> 10, frac |-> <<>>]]],
      [text |-> <<"1", ".", "5", "0">>, node |-> [type |-> "Number", value |-> [int |-> 1, frac |-> <<"5">>]]],
      [text |-> L_true, node |-> [type |-> "Boolean", value |-> TRUE]],
      [text |-> <<"2", "s">>, node |-> [type |-> "Time", value |-> <<"2", "s">>]],
      [text |-> <<"$", "w">>, node |-> [type |-> "Variable", name |-> <<"w">>]] }

\* (set: $v to value)
SetCall(v, value) == Call(N_set, <<" ", "$">> \o v \o <<" ">> \o L_to \o <<" ">> \o value)

SetCalls == {SetCall(v, l.text) : v \in SetVars, l \in LiteralCases}

LinkPairs ==
    { <<<<"N", "e", "x", "t">>, <<"N", "e", "x", "t", "P", "a", "s", "s", "a", "g", "e">>>>,
      <<<<"S", "o", "f", "i", "a">>, <<"H", "o", "m", "e">>>> }

\* (link: "A" -> "B") with l spaces before -> and r after
LinkCall(A, B, l, r) ==
    Call(N_link, <<" ">> \o Quoted(A) \o Sp(l) \o L_arrow \o Sp(r) \o Quoted(B))

LinkCalls == {LinkCall(q[1], q[2], l, r) : q \in LinkPairs, l \in 0..MaxWs, r \in 0..MaxWs}

LinkWords == {<<"H", "o", "m", "e">>, <<"B", "a", "c", "k">>, L_to}

\* [[T]] with s spaces inside each bracket
SimpleLink(T, s) == <<"[", "[">> \o Sp(s) \o T \o Sp(s) \o <<"]", "]">>

\* [[T->U]] with s spaces after [[ and around ->, and e spaces before ]]
ArrowLink(T, U, s, e) ==
    <<"[", "[">> \o Sp(s) \o T \o Sp(s) \o L_arrow \o Sp(s) \o U \o Sp(e)
        \o <<"]", "]">>

SimpleLinks == {SimpleLink(T, s) : T \in LinkWords, s \in 0..MaxPad}

ArrowLinks ==
    {ArrowLink(T, U, s, e) : T \in LinkWords, U \in LinkWords, s \in 0..MaxPad, e \in 0..MaxPad}

IfVars == {<<"s", "c", "o", "r", "e">>, <<"o", "f", "f", "s", "e", "t">>}

IfNumbers ==
    { [text |-> <<"1", "0">>, value |-> [int |-> 10, frac |-> <<>>]],
      [text |-> <<"3", ".", "5">>, value |-> [int |-> 3, frac |-> <<"5">>]] }

\* the words of a hook
HookWords == {<<<<"Y", "o", "u">>, <<"w", "i", "n", "!">>>>, <<<<"o", "k">>>>}

\* words with one space between them
RECURSIVE Spaced(_)
Spaced(words) ==
    IF Len(words) <= 1
    THEN Flatten(words)
    ELSE Head(words) \o <<" ">> \o Spaced(Tail(words))

\* (if: $v > n)[words]
IfHook(v, n, words) ==
    Call(N_if, <<" ", "$">> \o v \o <<" ", ">", " ">> \o n)
        \o <<"[">> \o Spaced(words) \o <<"]">>

IfHooks == {IfHook(v, n.text, w) : v \in IfVars, n \in IfNumbers, w \in HookWords}

\* a macro call inside the hook of another: the text, the outer and the
\* inner name
NestedCases ==
    { [text |-> <<"(", "h", "i", "s", "t", "o", "r", "y", ":", ")", "[", "Y", "o", "u", "'", "v", "e", " ", "v", "i", "s", "i", "t", "e", "d", " ", "(", "v", "i", "s", "i", "t", "e", "d", ":", " ", "\"", "R", "o", "o", "m", "\"", ")", "]">>,
       outer |-> N_history, inner |-> N_visited],
      [text |-> <<"(", "i", "f", ":", " ", "$", "v", ")", "[", "(", "p", "r", "i", "n", "t", ":", " ", "\"", "x", "\"", ")", "]">>,
       outer |-> N_if, inner |-> N_print] }

\* prose: the words, and the spaces written before, between and after them
ProseWords ==
    { <<<<"H", "e", "l", "l", "o">>>>, <<<<"H", "e", "l", "l", "o">>, <<"w", "o", "r", "l", "d">>>>,
      <<<<"C", "h", "o", "o", "s", "e">>, <<"w", "h", "a", "t">>, L_to, <<"d", "o">>>> }

Prose(words, s) == Sp(s) \o Spaced(words) \o Sp(s)

ProseInputs == {Prose(w, s) : w \in ProseWords, s \in 0..MaxPad}

\* calls that do not fit a fixed pattern: the text, the macro, and the
\* position of the argument that does not fit
ArityCases ==
    { [text |-> Call(N_if, <<" ", "1", ",", " ", "2">>), name |-> N_if, position |-> 2],
      [text |-> Call(N_print, <<" ", "\"", "a", "\"", ",", " ", "\"", "b", "\"">>), name |-> N_print, position |-> 2],
      [text |-> Call(N_if, <<" ", "h", "e", "l", "l", "o">>), name |-> N_if, position |-> 1] }

\* list-style calls: the text, the macro and the arguments written
ListCases ==
    { [text |-> Call(N_a, <<" ", "1", ",", " ", "2", ",", " ", "3">>), name |-> N_a,
       args |-> << [type |-> "Number", value |-> [int |-> 1, frac |-> <<>>]],
                   [type |-> "Number", value |-> [int |-> 2, frac |-> <<>>]],
                   [type |-> "Number", value |-> [int |-> 3, frac |-> <<>>]] >>],
      [text |-> Call(N_dm, <<" ", "\"", "n", "a", "m", "e", "\"", ",", " ", "\"", "J", "o", "h", "n", "\"", ",", " ", "\"", "s", "c", "o", "r", "e", "\"", ",", " ", "1", "0">>), name |-> N_dm,
       args |-> << [type |-> "String", value |-> <<"n", "a", "m", "e">>],
                   [type |-> "String", value |-> <<"J", "o", "h", "n">>],
                   [type |-> "String", value |-> <<"s", "c", "o", "r", "e">>],
                   [type |-> "Number", value |-> [int |-> 10, frac |-> <<>>]] >>],
      [text |-> Call(N_dm, <<" ", "\"", "n", "a", "m", "e", "\"", ",", " ", "\"", "S", "o", "f", "i", "a", "\"", ",", " ", "\"", "s", "c", "o", "r", "e", "\"", ",", " ", "1", "0">>), name |-> N_dm,
       args |-> << [type |-> "String", value |-> <<"n", "a", "m", "e">>],
                   [type |-> "String", value |-> <<"S", "o", "f", "i", "a">>],
                   [type |-> "String", value |-> <<"s", "c", "o", "r", "e">>],
                   [type |-> "Number", value |-> [int |-> 10, frac |-> <<>>]] >>] }

\* the tests every parser file lists, and inputs no rule can cut
OtherInputs ==
    { Call(N_if, <<" ", "$", "c", "o", "n", "d", "i", "t", "i", "o", "n">>), Call(N_print, <<" ", "\"", "H", "e", "l", "l", "o", "\"">>), <<"(", "i", "f", ":", " ", "$", "a", " ", "=", " ", "1", ")">>, <<>>, <<" ">> }

\* inputs that stop being tokens part way, or leave tokens behind
UnlexableInputs ==
    { <<"H", "e", "l", "l", "o", " ", "(", "w", "o", "r", "l", "d">>,
      <<"(", "p", "r", "i", "n", "t", ":", " ", "\"", "H", "e", "l", "l", "o", "\"", ")", " ", "\"", "x">>,
      <<"(", "p", "r", "i", "n", "t", ":", " ", "\"", "H", "e", "l", "l", "o", "\"", ")", "(">> }

TrailingInputs ==
    { <<"(", "p", "r", "i", "n", "t", ":", " ", "\"", "H", "e", "l", "l", "o", "\"", ")", " ", ")">> }

\* a hook on its own, attached to no macro
StandaloneHooks ==
    { <<"[", "h", "i", "]">>,
      <<"[", "h", "o", "o", "k", " ", "c", "o", "n", "t", "e", "n", "t", "]">> }

\* the prose of a hook: plain words, and words that are lexemes of keywords,
\* of operators, and digits
LiveProse ==
    { <<<<"T", "i", "m", "e">>, <<"i", "s">>, <<"r", "u", "n", "n", "i", "n", "g", "!">>>>,
      <<<<"G", "o">>, <<"t", "o">>, <<"i", "t">>>>,
      <<<<"n", "o", "w">>, <<"a", "n", "d">>, <<"1", "0">>, <<"o", "r">>, <<"s", "o">>>>,
      <<<<"T", "i", "m", "e">>>> }

\* (live: 2s)[words]
LiveHook(words) ==
    Call(N_live, <<" ", "2", "s">>) \o <<"[">> \o Spaced(words) \o <<"]">>

LiveHooks == {LiveHook(p) : p \in LiveProse}

\* the test list of part_004, with what its comments say of each input
tests_p4 ==
    { [text |-> <<"(", "s", "e", "t", ":", " ", "$", "c", "o", "m", "p", "a", "n", "i", "o", "n", " ", "t", "o", " ", "\"", "G", "a", "l", "l", "i", "f", "r", "e", "y", "\"", ")">>,
       valid |-> TRUE],
      [text |-> <<"(", "l", "i", "n", "k", ":", " ", "\"", "N", "e", "x", "t", "\"", " ", "-", ">", " ", "\"", "N", "e", "x", "t", "P", "a", "s", "s", "a", "g", "e", "\"", ")">>,
       valid |-> TRUE],
      [text |-> <<"(", "s", "e", "t", ":", " ", "\"", "i", "n", "v", "a", "l", "i", "d", "\"", " ", "t", "o", " ", "$", "w", "r", "o", "n", "g", ")">>,
       valid |-> FALSE],
      [text |-> <<"(", "l", "i", "n", "k", ":", " ", "\"", "N", "e", "x", "t", "\"", " ", "t", "o", " ", "\"", "W", "r", "o", "n", "g", "\"", ")">>,
       valid |-> FALSE],
      [text |-> <<"(", "i", "f", ":", " ", "$", "c", "o", "n", "d", "i", "t", "i", "o", "n", ")">>,
       valid |-> TRUE],
      [text |-> <<"(", "p", "r", "i", "n", "t", ":", " ", "\"", "H", "e", "l", "l", "o", "\"", ")">>,
       valid |-> TRUE] }

\* the comparison operators, and values to compare
ComparisonOps ==
    {L_gt, L_lt, L_ge, L_le, L_is, L_is_not, L_contains, L_does_not_contain}

LeftValues ==
    { [text |-> <<"$", "a">>, node |-> [type |-> "Variable", name |-> <<"a">>]],
      [text |-> Quoted(<<"x">>), node |-> [type |-> "String", value |-> <<"x">>]] }

RightValues ==
    { [text |-> <<"1">>, node |-> [type |-> "Number", value |-> parseFloat(<<"1">>)]],
      [text |-> <<"$", "b">>, node |-> [type |-> "Variable", name |-> <<"b">>]] }

\* (if: l op r), one space on each side of op
Compare(l, op, r) == Call(N_if, <<" ">> \o l \o <<" ">> \o op \o <<" ">> \o r)

Comparisons ==
    {Compare(l.text, op, r.text) : l \in LeftValues, op \in ComparisonOps, r \in RightValues}

\* the sides of a comparison: a value (op is empty) or value aop value
Num(t) == [type |-> "Number", value |-> parseFloat(t)]

Var(n) == [type |-> "Variable", name |-> n]

LeftSides ==
    { [text |-> <<"$", "a">>, op |-> <<>>, left |-> Var(<<"a">>), right |-> Null],
      [text |-> <<"$", "a", " ", "+", " ", "1">>, op |-> <<"+">>,
       left |-> Var(<<"a">>), right |-> Num(<<"1">>)] }

RightSides ==
    { [text |-> <<"2">>, op |-> <<>>, left |-> Num(<<"2">>), right |-> Null],
      [text |-> <<"$", "b", " ", "*", " ", "2">>, op |-> <<"*">>,
       left |-> Var(<<"b">>), right |-> Num(<<"2">>)] }

SideOps == {L_gt, L_is}

SidedComparisons ==
    {Compare(l.text, op, r.text) : l \in LeftSides, op \in SideOps, r \in RightSides}

\* values, the arithmetic operators, and arguments that chain two operators
BareValues ==
    { [text |-> <<"1">>, node |-> Num(<<"1">>)],
      [text |-> <<"$", "a">>, node |-> Var(<<"a">>)],
      [text |-> Quoted(<<"x">>), node |-> [type |-> "String", value |-> <<"x">>]],
      [text |-> <<"$", "o", "f", "f", "s", "e", "t">>, node |-> Var(<<"o", "f", "f", "s", "e", "t">>)] }

SecondValues ==
    { [text |-> <<"2">>, node |-> Num(<<"2">>)],
      [text |-> <<"$", "b">>, node |-> Var(<<"b">>)] }

ArithmeticOps == {<<"+">>, <<"-">>, <<"*">>, <<"/">>}

\* (m: v1 aop v2), one space on each side of aop
Arith(l, op, r) == Call(N_m, <<" ">> \o l \o <<" ">> \o op \o <<" ">> \o r)

Arithmetics ==
    {Arith(l.text, op, r.text) : l \in BareValues, op \in ArithmeticOps, r \in SecondValues}

BareArgs == {Call(N_m, <<" ">> \o v.text) : v \in BareValues}

ChainedArgs ==
    { <<"(", "m", ":", " ", "1", " ", "+", " ", "2", " ", "+", " ", "3", ")">>,
      <<"(", "m", ":", " ", "1", " ", "+", " ", "2", " ", "*", " ", "3", ")">>,
      <<"(", "m", ":", " ", "1", " ", ">", " ", "2", " ", ">", " ", "3", ")">>,
      <<"(", "m", ":", " ", "1", " ", "i", "s", " ", "2", " ", "i", "s", " ", "3", ")">> }

\* link texts and targets of several words
LinkPhrases == {<<<<"G", "o">>, <<"b", "a", "c", "k">>>>, <<<<"M", "a", "i", "n">>, <<"h", "a", "l", "l">>>>}

\* [[T -> U]] and [[T]], the words of T and of U one space apart
PhraseArrowLink(T, U) ==
    <<"[", "[">> \o Spaced(T) \o <<" ", "-", ">", " ">> \o Spaced(U) \o <<"]", "]">>

PhraseLink(T) == <<"[", "[">> \o Spaced(T) \o <<"]", "]">>

PhraseLinks ==
    {PhraseArrowLink(T, U) : T \in LinkPhrases, U \in LinkPhrases}
        \cup {PhraseLink(T) : T \in LinkPhrases}

\* macros with hooks inside the hooks of macros, with the depth of the
\* nesting, and inputs with a bracket that has no partner
NestedHooks ==
    { [text |-> <<"(", "i", "f", ":", " ", "$", "a", ")", "[", "x", " ", "(", "i", "f", ":", " ", "$", "b", ")", "[", "y", "]", "]">>,
       depth |-> 2],
      [text |-> <<"(", "i", "f", ":", " ", "$", "a", ")", "[", "x", " ", "(", "i", "f", ":", " ", "$", "b", ")", "[", "y", "]", " ", "]">>,
       depth |-> 2],
      [text |-> <<"(", "i", "f", ":", " ", "$", "a", ")", "[", "(", "i", "f", ":", " ", "$", "b", ")", "[", "y", "]", " ", "z", "]">>,
       depth |-> 2],
      [text |-> <<"(", "i", "f", ":", " ", "$", "a", ")", "[", "x", " ", "(", "i", "f", ":", " ", "$", "b", ")", "[", "y", " ", "(", "i", "f", ":", " ", "$", "c", ")", "[", "z", "]", " ", "]", " ", "]">>,
       depth |-> 3],
      [text |-> <<"(", "i", "f", ":", " ", "$", "a", ")", "[", "(", "i", "f", ":", " ", "$", "b", ")", "[", "(", "i", "f", ":", " ", "$", "c", ")", "[", "z", "]", "]", "]">>,
       depth |-> 3] }

UnmatchedBrackets ==
    { <<"(", "i", "f", ":", " ", "$", "a", ")", "[", "x">>,
      <<"(", "i", "f", ":", " ", "$", "a", ")", "x", "]">>,
      <<"(", "i", "f", ":", " ", "$", "a", ")", "[", "x", " ", "(", "i", "f", ":", " ", "$", "b", ")", "[", "y", "]">>,
      <<"(", "i", "f", ":", " ", "$", "a", ")", "[", "x", "]", " ", "]">> }

\* what stands between the quotes of a string literal, and variable names
StringBodies ==
    { <<"H", "e", "l", "l", "o">>,
      <<>>,
      <<"a", " ", "b">>,
      <<"x", ",", " ", "[", "y", "]", " ", "(", "z", ")">>,
      <<"$", "a", " ", ">", " ", "1", " ", "t", "o">>,
      <<"S", "o", "f", "i", "a">> }

VariableNames ==
    { <<"a">>,
      <<"s", "c", "o", "r", "e">>,
      <<"m", "y", "_", "v", "a", "r", "-", "2">>,
      <<"o", "f", "f", "s", "e", "t">> }

\* (print: "s") and (print: $name)
PrintString(s) == Call(N_print, <<" ">> \o Quoted(s))

PrintVariable(n) == Call(N_print, <<" ", "$">> \o n)

PrintCalls ==
    {PrintString(s) : s \in StringBodies} \cup {PrintVariable(n) : n \in VariableNames}

\* calls of the macros whose pattern names a keyword
KeywordMacroCalls ==
    { <<"(", "s", "e", "t", ":", " ", "$", "x", " ", "t", "o", " ", "1", ")">>,
      <<"(", "s", "e", "t", ":", " ", "$", "x", ")">>,
      <<"(", "s", "e", "t", ":", ")">>,
      <<"(", "s", "e", "t", ":", " ", "$", "x", " ", "t", "o", " ", "1", ",", " ", "2", ")">>,
      <<"(", "s", "e", "t", ":", " ", "$", "x", " ", "t", "o", " ", "1", ",", " ", "$", "y", " ", "t", "o", " ", "2", ")">>,
      <<"(", "s", "e", "t", ":", " ", "1", ",", " ", "$", "x", " ", "t", "o", " ", "1", ")">>,
      <<"(", "l", "i", "n", "k", ":", " ", "\"", "A", "\"", ")">>,
      <<"(", "l", "i", "n", "k", ":", " ", "\"", "A", "\"", " ", "t", "o", " ", "\"", "B", "\"", ")">>,
      <<"(", "l", "i", "n", "k", ":", ")">>,
      <<"(", "l", "i", "n", "k", ":", " ", "\"", "A", "\"", " ", "t", "o", " ", "\"", "B", "\"", ",", " ", "\"", "C", "\"", ")">> }

\* inputs that run every alt, opt and rep of the grammars: several macros,
\* a hook followed by a macro, every kind of argument in one list, a macro
\* as a value, a macro with a hook inside a hook
ManyChoices ==
    { <<"(", "p", "r", "i", "n", "t", ":", " ", "1", ")", "(", "p", "r", "i", "n", "t", ":", " ", "2", ")">>,
      <<"(", "i", "f", ":", " ", "$", "a", " ", ">", " ", "1", ")", "[", "x", "]", "(", "p", "r", "i", "n", "t", ":", " ", "1", ")">>,
      <<"(", "s", "e", "t", ":", " ", "$", "x", " ", "t", "o", " ", "1", " ", "+", " ", "2", ")">>,
      <<"(", "a", ":", " ", "1", ",", " ", "2", " ", "+", " ", "3", ",", " ", "$", "a", " ", ">", " ", "1", ")">>,
      <<"(", "i", "f", ":", " ", "(", "p", "r", "i", "n", "t", ":", " ", "1", ")", ")">>,
      <<"(", "i", "f", ":", " ", "$", "a", ")", "[", "x", " ", "\"", "s", "\"", " ", "(", "p", "r", "i", "n", "t", ":", " ", "1", ")", "[", "y", "]", " ", "]">>,
      <<"[", "[", "A", " ", "-", ">", " ", "B", "]", "]", " ", "x", " ", "(", "p", "r", "i", "n", "t", ":", " ", "1", ")">>,
      <<"x", " ", "(", "i", "f", ":", " ", "$", "a", " ", "t", "o", " ", "1", ",", " ", "\"", "s", "\"", " ", "-", ">", " ", "\"", "t", "\"", ",", " ", "2", " ", ">", " ", "1", ")">> }

Inputs ==
    UnknownCalls \cup {c.text : c \in WrongKeywordCases} \cup SetCalls
        \cup LinkCalls \cup SimpleLinks \cup ArrowLinks \cup IfHooks
        \cup {c.text : c \in NestedCases} \cup ProseInputs
        \cup {c.text : c \in ArityCases} \cup {c.text : c \in ListCases}
        \cup OtherInputs
        \cup UnlexableInputs \cup TrailingInputs
        \cup StandaloneHooks
        \cup LiveHooks
        \cup {c.text : c \in tests_p4}
        \cup Comparisons
        \cup SidedComparisons
        \cup Arithmetics \cup BareArgs \cup ChainedArgs
        \cup PhraseLinks
        \cup {c.text : c \in NestedHooks} \cup UnmatchedBrackets
        \cup PrintCalls
        \cup KeywordMacroCalls
        \cup ManyChoices

(***************************************************************************)
(* The state machine.  The input is cut into tokens one kept token start a     *)
(* time (token.next).  Then the grammar runs: the outputs of the rules are  *)
(* computed from the last token back to the first (start, rule), each from the *)
(* outputs it calls for, and parseHarlowe's result is read off the top rule *)
(* start the first token.                                                      *)
(***************************************************************************)
NoResult == [ok |-> FALSE, value |-> Null, error |-> NoThrow]

\* the table of rule outputs before any is computed
NoMemo(v, n) ==
    [tag \in {GrammarOf(v)[k] : k \in 1..Len(GrammarOf(v))} |->
        [p \in 1..(n + 1) |-> Fail]]

Init ==
    /\ ver \in Versions
    /\ input \in Inputs
    /\ pos = 1
    /\ toks = <<>>
    /\ bad = FALSE
    /\ pc = "lex"
    /\ memo = <<>>
    /\ start = 0
    /\ rule = 1
    /\ result = NoResult
    /\ lastIndex = [k \in 1..Len(RulesOf(ver)) |-> 0]
    /\ calls = <<>>

\* token.next: LexerImpl.parseNextAvailable
TokenNext ==
    /\ pc = "lex"
    /\ \E r \in {parseNextAvailable(ver, input, pos, lastIndex)} :
           /\ pos' = r.next
           /\ lastIndex' = r.li
           /\ toks' = IF r.st = "token" THEN Append(toks, r.tok) ELSE toks
           /\ bad' = (r.st = "error")
           /\ pc' = IF r.st = "token" THEN "lex" ELSE "parse"
           /\ memo' = IF r.st = "token" THEN memo ELSE NoMemo(ver, Len(toks))
           /\ start' = IF r.st = "token" THEN start ELSE Len(toks) + 1
    /\ UNCHANGED <<ver, input, rule, result, calls>>

Tokens == [toks |-> toks, bad |-> bad, memo |-> memo]

\* rule.parse(token) for the next rule and token
RuleParse ==
    /\ pc = "parse"
    /\ start >= 1
    /\ LET tag == GrammarOf(ver)[rule]
       IN  memo' = [memo EXCEPT ![tag][start] = Pattern(tag, Tokens, start)]
    /\ IF rule < Len(GrammarOf(ver))
       THEN rule' = rule + 1 /\ start' = start
       ELSE rule' = 1 /\ start' = start - 1
    /\ UNCHANGED <<ver, input, pos, toks, bad, pc, result, lastIndex, calls>>

ParseMain ==
    /\ pc = "parse"
    /\ start = 0
    /\ ver = "main"
    /\ result' = parseHarlowe(input, Tokens)
    /\ pc' = "done"
    /\ UNCHANGED <<ver, input, pos, toks, bad, memo, start, rule, lastIndex, calls>>

ParseP2 ==
    /\ pc = "parse"
    /\ start = 0
    /\ ver = "p2"
    /\ result' = parseHarlowe_p2(input, Tokens)
    /\ pc' = "done"
    /\ UNCHANGED <<ver, input, pos, toks, bad, memo, start, rule, lastIndex, calls>>

ParseP4 ==
    /\ pc = "parse"
    /\ start = 0
    /\ ver = "p4"
    /\ result' = parseHarlowe_p4(input, Tokens)
    /\ pc' = "done"
    /\ UNCHANGED <<ver, input, pos, toks, bad, memo, start, rule, lastIndex, calls>>

ParseP5 ==
    /\ pc = "parse"
    /\ start = 0
    /\ ver = "p5"
    /\ result' = parseHarlowe_p5(input, Tokens)
    /\ pc' = "done"
    /\ UNCHANGED <<ver, input, pos, toks, bad, memo, start, rule, lastIndex, calls>>

Next == TokenNext \/ RuleParse \/ ParseMain \/ ParseP2 \/ ParseP4 \/ ParseP5

Spec == Init /\ [][Next]_vars

(***************************************************************************)
(* Calls one after the other.  The token patterns are objects of the       *)
(* module, made once: what a call leaves in their lastIndex is there when   *)
(* the next call starts.  calls keeps the input and the outcome of the      *)
(* calls that are over.                                                     *)
(***************************************************************************)
\* the number of calls made before the one under way
MaxCalls == 2

CallInputs ==
    { Call(N_print, <<" ", "\"", "H", "e", "l", "l", "o", "\"">>),
      <<"(", "i", "f", ":", " ", "$", "a", " ", "=", " ", "1", ")">>,
      <<"H", "e", "l", "l", "o", " ", "w", "o", "r", "l", "d">> }

InitCalls == Init /\ input \in CallInputs

\* parseHarlowe is called again, after a call that returned or threw
NextCall ==
    /\ pc = "done"
    /\ Len(calls) < MaxCalls
    /\ calls' = Append(calls, [input |-> input, result |-> result])
    /\ input' \in CallInputs
    /\ pos' = 1
    /\ toks' = <<>>
    /\ bad' = FALSE
    /\ pc' = "lex"
    /\ memo' = <<>>
    /\ start' = 0
    /\ rule' = 1
    /\ result' = NoResult
    /\ UNCHANGED <<ver, lastIndex>>

NextCalls ==
    TokenNext \/ RuleParse \/ ParseMain \/ ParseP2 \/ ParseP4 \/ ParseP5 \/ NextCall

SpecCalls == InitCalls /\ [][NextCalls]_vars

(***************************************************************************)
(* The properties.  A parse is over when pc = "done"; result then holds    *)
(* what parseHarlowe returned or threw.                                     *)
(***************************************************************************)
Done == pc = "done"

Range(s) == {s[k] : k \in 1..Len(s)}

\* the node a parse returned: the only expression of a Program, or the
\* value itself where parseHarlowe returns the macro
SingleNode ==
    IF ~result.ok
    THEN Null
    ELSE IF result.value.type # "Program"
    THEN result.value
    ELSE IF Len(result.value.expressions) = 1
    THEN result.value.expressions[1]
    ELSE Null

\* the error a callback of MACRO threw
Cause == IF result.ok THEN NoThrow ELSE result.error.cause

\* the hook attached to a macro node, under either field name
HookOf(m) ==
    IF "hookContent" \in DOMAIN m
    THEN m.hookContent
    ELSE IF "hook" \in DOMAIN m THEN m.hook ELSE Null

\* the two sides of the keyword argument of a macro node, however the parser
\* keeps them
Operands(m) ==
    IF Len(m.args) = 1 /\ m.args[1].type = "KeywordArg"
    THEN <<m.args[1].left, m.args[1].right>>
    ELSE IF Len(m.args) = 1 /\ m.args[1].type = "Link"
    THEN <<m.args[1].text, m.args[1].target>>
    ELSE m.args

StringNode(s) == [type |-> "String", value |-> s]

\* C1: a call of a macro whose name is not a key of the pattern table, with
\* valid arguments and an optional hook, parses to an UnknownMacro node
\* carrying the name and the raw macro-name lexeme, and never throws.
C1_UnknownMacroParses ==
    \A n \in UnknownNames, a \in UnknownArgs, h \in UnknownHooks :
        (Done /\ ver \in {"main", "p4"} /\ input = Call(n, a) \o h)
            => /\ result.ok
               /\ SingleNode.type = "UnknownMacro"
               /\ SingleNode.name = n
               /\ SingleNode.rawContent = <<"(">> \o n \o <<":">>

\* part_004 throws on the unknown name
C1_UnknownMacroThrows ==
    /\ Done
    /\ ver = "p4"
    /\ input = Call(N_bogusMacro, <<" ", "1", ",", " ", "2">>)
    /\ ~result.ok
    /\ Cause = Exc("Unknown macro type: %s", <<N_bogusMacro>>, <<>>)

\* C2: a keyword macro called with the other keyword fails with an error
\* whose message names the expected keyword and the keyword found, and no
\* Macro node is returned.
C2_WrongKeywordRejected ==
    \A c \in WrongKeywordCases :
        (Done /\ ver \in {"main", "p4", "p5"} /\ input = c.text)
            => /\ ~result.ok
               /\ c.expected \in Range(Cause.strs)
               /\ c.actual \in Range(Cause.strs)

\* src/utils/parseHarlowe.ts returns the link macro written with to
C2_WrongKeywordAccepted ==
    /\ Done
    /\ ver = "main"
    /\ input = Call(N_link, <<" ", "\"", "N", "e", "x", "t", "\"", " ", "t", "o", " ", "\"", "W", "r", "o", "n", "g", "\"">>)
    /\ result.ok
    /\ SingleNode.type = "Macro"
    /\ SingleNode.name = N_link
    /\ SingleNode.args[1].type = "KeywordArg"
    /\ SingleNode.args[1].keyword = L_to

\* C3: (set: $v to value) with a literal value gives a Program whose single
\* expression is a Macro named set with exactly two args, Variable(v) and
\* the value node.
C3_SetHasVariableAndValue ==
    \A v \in SetVars, l \in LiteralCases :
        (Done /\ ver \in {"main", "p4"} /\ input = SetCall(v, l.text))
            => /\ result.ok
               /\ result.value.type = "Program"
               /\ SingleNode.type = "Macro"
               /\ SingleNode.name = N_set
               /\ SingleNode.args = <<[type |-> "Variable", name |-> v], l.node>>

\* part_004 rejects a time value
C3_TimeValueRejected ==
    /\ Done
    /\ ver = "p4"
    /\ input = SetCall(<<"c", "o", "m", "p", "a", "n", "i", "o", "n">>, <<"2", "s">>)
    /\ ~result.ok
    /\ Cause = Exc("Invalid type for second argument in %s macro", <<N_set>>, <<>>)

\* C4: (link: "A" -> "B") gives a Macro for link with text A and target B,
\* with zero, one or several spaces on either side of the arrow.
C4_LinkTextAndTarget ==
    \A q \in LinkPairs, l \in 0..MaxWs, r \in 0..MaxWs :
        (Done /\ ver \in {"main", "p2", "p4"} /\ input = LinkCall(q[1], q[2], l, r))
            => /\ result.ok
               /\ SingleNode.type = "Macro"
               /\ SingleNode.name = N_link
               /\ Operands(SingleNode) = <<StringNode(q[1]), StringNode(q[2])>>

\* part_004 does not parse the link call of its own test list
C4_ArrowLinkFails ==
    /\ Done
    /\ ver = "p4"
    /\ input = LinkCall(<<"N", "e", "x", "t">>, <<"N", "e", "x", "t", "P", "a", "s", "s", "a", "g", "e">>, 1, 1)
    /\ ~result.ok

\* C5: for single words T and U, [[T]] gives a Link with text T and target
\* T, and [[ T -> U ]] a Link with text T and target U, without the spaces
\* next to the brackets and the arrow.
C5_BracketLinks ==
    /\ \A T \in LinkWords, s \in 0..MaxPad :
        (Done /\ ver = "p2" /\ input = SimpleLink(T, s))
            => /\ result.ok
               /\ SingleNode = [type |-> "Link", text |-> T, target |-> T]
    /\ \A T \in LinkWords, U \in LinkWords, s \in 0..MaxPad, e \in 0..MaxPad :
        (Done /\ ver = "p2" /\ input = ArrowLink(T, U, s, e))
            => /\ result.ok
               /\ SingleNode = [type |-> "Link", text |-> T, target |-> U]

\* part_002 does not parse a link whose word is a keyword
C5_KeywordLinkFails ==
    /\ Done
    /\ ver = "p2"
    /\ input = SimpleLink(L_to, 0)
    /\ ~result.ok

\* the words of a hook as the parser keeps them: one string in
\* src/utils/parseHarlowe.ts, one child per word in part_002
HookHolds(hook, words) ==
    \/ hook.type = "Hook" /\ hook.content = Spaced(words)
    \/ /\ hook.type = "HookContent"
       /\ hook.content = [k \in 1..Len(words) |-> Str(words[k])]

\* C6: (if: $v > n)[words] gives a Macro named if with exactly one argument,
\* a comparison with operator >, left Variable(v) and right Number(n), and
\* a non-null hook that holds the words.
C6_IfComparisonWithHook ==
    \A v \in IfVars, n \in IfNumbers, w \in HookWords :
        (Done /\ ver \in {"main", "p2", "p5"} /\ input = IfHook(v, n.text, w))
            => /\ result.ok
               /\ SingleNode.type = "Macro"
               /\ SingleNode.name = N_if
               /\ Len(SingleNode.args) = 1
               /\ SingleNode.args[1].type \in {"ComparisonExpr", "Operation"}
               /\ SingleNode.args[1].operator = <<">">>
               /\ SingleNode.args[1].left = [type |-> "Variable", name |-> v]
               /\ SingleNode.args[1].right = [type |-> "Number", value |-> n.value]
               /\ HookOf(SingleNode) # Null
               /\ HookHolds(HookOf(SingleNode), w)

\* part_005 does not parse the call of its own test list
C6_IfHookFails ==
    /\ Done
    /\ ver = "p5"
    /\ input = IfHook(<<"s", "c", "o", "r", "e">>, <<"1", "0">>, <<<<"Y", "o", "u">>, <<"w", "i", "n", "!">>>>)
    /\ ~result.ok

\* C7: a macro call inside the hook of another macro becomes a macro node
\* among the children of that hook, never part of a flat text.
C7_NestedMacroIsChild ==
    \A c \in NestedCases :
        (Done /\ ver \in {"main", "p2"} /\ input = c.text)
            => /\ result.ok
               /\ SingleNode.type = "Macro"
               /\ SingleNode.name = c.outer
               /\ HookOf(SingleNode).type = "HookContent"
               /\ \E k \in 1..Len(HookOf(SingleNode).content) :
                    /\ HookOf(SingleNode).content[k].type = "Macro"
                    /\ HookOf(SingleNode).content[k].name = c.inner

\* src/utils/parseHarlowe.ts keeps the inner call inside the text of the hook
C7_NestedMacroIsText ==
    /\ Done
    /\ ver = "main"
    /\ input = <<"(", "h", "i", "s", "t", "o", "r", "y", ":", ")", "[", "Y", "o", "u", "'", "v", "e", " ", "v", "i", "s", "i", "t", "e", "d", " ", "(", "v", "i", "s", "i", "t", "e", "d", ":", " ", "\"", "R", "o", "o", "m", "\"", ")", "]">>
    /\ result.ok
    /\ SingleNode.name = N_history
    /\ SingleNode.hookContent =
         [type |-> "Hook",
          content |-> <<"Y", "o", "u", "'", "v", "e", " ", "v", "i", "s", "i", "t", "e", "d", " ", "(", "v", "i", "s", "i", "t", "e", "d", ":", " ", "\"", "R", "o", "o", "m", "\"", ")">>]

\* C8: prose words separated by whitespace parse to a Program of Text nodes
\* only, holding the words of the trimmed input, none of them empty.
C8_ProseIsText ==
    \A w \in ProseWords, s \in 0..MaxPad :
        (Done /\ ver = "p2" /\ input = Prose(w, s))
            => /\ result.ok
               /\ result.value.type = "Program"
               /\ \A k \in 1..Len(result.value.expressions) :
                    /\ result.value.expressions[k].type = "Text"
                    /\ trim(result.value.expressions[k].content) # <<>>
               /\ Spaced([k \in 1..Len(result.value.expressions) |->
                            result.value.expressions[k].content]) = Spaced(w)

\* part_002 does not parse prose that holds the word to
C8_ProseWithToFails ==
    /\ Done
    /\ ver = "p2"
    /\ input = Prose(<<<<"C", "h", "o", "o", "s", "e">>, <<"w", "h", "a", "t">>, L_to, <<"d", "o">>>>, 0)
    /\ ~result.ok

\* C9: a call whose argument count or argument type does not fit the fixed
\* pattern of its macro fails with an error naming the macro and the
\* position, and no Macro node is returned.
C9_ArityMismatchRejected ==
    \A c \in ArityCases :
        (Done /\ ver \in {"main", "p4"} /\ input = c.text)
            => /\ ~result.ok
               /\ c.name \in Range(Cause.strs)
               /\ c.position \in Range(Cause.nums)

\* src/utils/parseHarlowe.ts returns the macro with more arguments than its
\* pattern holds
C9_ExtraArgumentAccepted ==
    /\ Done
    /\ ver = "main"
    /\ input = Call(N_if, <<" ", "1", ",", " ", "2">>)
    /\ result.ok
    /\ SingleNode.type = "Macro"
    /\ SingleNode.name = N_if
    /\ Len(SingleNode.pattern) = 1
    /\ Len(SingleNode.args) = 2

\* C10: a list-style call of a catalogued macro with several literal
\* arguments gives a Macro node whose args are the written arguments, one
\* node each, in source order.
C10_ListArgsInOrder ==
    \A c \in ListCases :
        (Done /\ ver = "main" /\ input = c.text)
            => /\ result.ok
               /\ SingleNode.type = "Macro"
               /\ SingleNode.name = c.name
               /\ SingleNode.args = c.args

\* src/utils/parseHarlowe.ts does not parse a list whose string holds "of"
C10_ListWithOfFails ==
    /\ Done
    /\ ver = "main"
    /\ input = Call(N_dm, <<" ", "\"", "n", "a", "m", "e", "\"", ",", " ", "\"", "S", "o", "f", "i", "a", "\"", ",", " ", "\"", "s", "c", "o", "r", "e", "\"", ",", " ", "1", "0">>)
    /\ toks[1].kind = "PropertyAccess"
    /\ ~result.ok

\* the rule parseHarlowe starts from
TopRule == CASE ver = "main" -> "PROGRAM"
             [] ver = "p2" -> "PROGRAM_p2"
             [] ver = "p4" -> "EXP_p4"
             [] ver = "p5" -> "PROGRAM_p5"

\* the values of the top rule's candidates that end after the last token
AtEOF == IF toks = <<>>
         THEN {}
         ELSE {c.r : c \in {d \in Range(memo[TopRule][1].cs) : d.n = Len(toks) + 1}}

\* C11: parseHarlowe returns a Program only when every character of the
\* input became a token and the grammar consumed every kept token; when a
\* token is left over or some offset matches no pattern it throws, and no
\* partial tree is returned.
C11_WholeInputOrThrow ==
    (Done /\ ver \in {"main", "p2"})
        => /\ result.ok => /\ ~bad
                           /\ pos = Len(input) + 1
                           /\ result.value.type = "Program"
                           /\ result.value \in AtEOF
           /\ (bad \/ AtEOF = {}) => (~result.ok /\ result.value = Null)

\* tokens were cut, the rest of the input matches no pattern, and the parse
\* threw the TokenError
C11_UnlexableRestThrows ==
    /\ Done
    /\ ver = "p2"
    /\ input \in UnlexableInputs
    /\ bad
    /\ Len(toks) >= 1
    /\ pos <= Len(input)
    /\ ~result.ok
    /\ Cause = TokenizeError

\* C12: in any sequence of calls, calls that throw included, a call's
\* outcome is the outcome of the same input parsed first, in isolation, and
\* parsing an input again gives the same tree: no call reads what an
\* earlier call wrote.
C12_SameOutcomeInAnySequence ==
    Done => \A k \in 1..Len(calls) :
                calls[k].input = input => calls[k].result = result

\* an input parsed first, then a call that throws, then the input again
C12_ParsedAgainAfterThrow ==
    /\ Done
    /\ Len(calls) = 2
    /\ calls[1].input = input
    /\ calls[2].input # input
    /\ ~calls[2].result.ok
    /\ \E k \in 1..Len(lastIndex) : lastIndex[k] # 0
    /\ result.ok
    /\ calls[1].result = result

\* the rules whose pattern matches at index i of the input, and the token
\* the tokenizer has just cut: it ends where the lexer stands
MatchingRules(i) ==
    {k \in 1..Len(RulesOf(ver)) : MatchEnd(RulesOf(ver)[k].re, input, i) # 0}

LastToken == toks[Len(toks)]

LastTokenStart == pos - Len(LastToken.text)

\* C13: the token cut at a position is the token of the first pattern, in
\* list order, that matches there, and the lexer advances by that match; a
\* pattern listed later never wins with a longer match.
C13_FirstMatchWins ==
    (pc = "lex" /\ toks # <<>> /\ ver \in {"main", "p2"})
        => LET first == RulesOf(ver)[Min(MatchingRules(LastTokenStart))]
           IN  /\ LastToken.kind = first.kind
               /\ pos = MatchEnd(first.re, input, LastTokenStart)

\* at the start of [[Home]] the pattern of HookOpen matches first, and the
\* token cut is the longer HookContent
C13_LaterPatternWins ==
    /\ pc = "lex"
    /\ ver = "main"
    /\ input = SimpleLink(<<"H", "o", "m", "e">>, 0)
    /\ Len(toks) = 1
    /\ RulesOf(ver)[Min(MatchingRules(1))].kind = "HookOpen"
    /\ LastToken = [kind |-> "HookContent", text |-> <<"[", "[", "H", "o", "m", "e", "]">>]

\* C14: an input holding a hook that is attached to no macro is accepted,
\* and the hook is a node of the tree returned.
C14_StandaloneHookAccepted ==
    (Done /\ ver \in {"main", "p2"} /\ input \in StandaloneHooks)
        => /\ result.ok
           /\ \E e \in Range(result.value.expressions) :
                  e.type \in {"Hook", "HookContent"}

\* PROGRAM of part_002 has no alternative that starts at a HookOpen token:
\* the three tokens of [hi] are left over
C14_StandaloneHookRejected ==
    /\ Done
    /\ ver = "p2"
    /\ input = <<"[", "h", "i", "]">>
    /\ ~bad
    /\ Len(toks) = 3
    /\ toks[1].kind = "HookOpen"
    /\ AtEOF = {}
    /\ ~result.ok

\* C15: (live: 2s)[prose], the prose free of brackets and holding words
\* that are also keywords or operators (is, to, and, or) and digits, parses
\* to the macro with the one argument Time "2s" and a hook that keeps the
\* prose in the order written.
C15_ProseHookKept ==
    \A p \in LiveProse :
        (Done /\ ver \in {"main", "p2"} /\ input = LiveHook(p))
            => /\ result.ok
               /\ SingleNode.type = "Macro"
               /\ SingleNode.name = N_live
               /\ SingleNode.args = <<[type |-> "Time", value |-> <<"2", "s">>]>>
               /\ HookHolds(HookOf(SingleNode), p)

\* in part_002 the word is of the hook is a ComparisonOp token, which
\* HOOK_CONTENT has no alternative for
C15_KeywordInHookFails ==
    /\ Done
    /\ ver = "p2"
    /\ input = LiveHook(<<<<"T", "i", "m", "e">>, <<"i", "s">>, <<"r", "u", "n", "n", "i", "n", "g", "!">>>>)
    /\ ~bad
    /\ \E k \in 1..Len(toks) : toks[k] = [kind |-> "ComparisonOp", text |-> L_is]
    /\ ~result.ok

\* C16: in part_004 every input its test list marks Valid parses to exactly
\* one result, a Macro node, and every input it marks Invalid makes
\* parseHarlowe throw.
C16_TestListOutcomes ==
    \A c \in tests_p4 :
        (Done /\ ver = "p4" /\ input = c.text)
            => IF c.valid
               THEN result.ok /\ result.value.type = "Macro"
               ELSE ~result.ok

\* (if: $condition) is parsed by both alternatives of MACRO's argument
\* list: two candidates reach the end and expectSingleResult throws
C16_ValidInputHasTwoResults ==
    /\ Done
    /\ ver = "p4"
    /\ input = <<"(", "i", "f", ":", " ", "$", "c", "o", "n", "d", "i", "t", "i", "o", "n", ")">>
    /\ Len(memo["EXP_p4"][1].cs) = 2
    /\ \A k \in 1..2 : /\ memo["EXP_p4"][1].cs[k].n = Len(toks) + 1
                        /\ memo["EXP_p4"][1].cs[k].r.type = "Macro"
    /\ ~result.ok
    /\ Cause = Exc("Multiple results are returned.", <<>>, <<>>)

\* C17: for each comparison operator, an argument value op value with spaces
\* around op parses to one comparison node whose operator is the text of
\* op and whose left and right are the two values.
C17_EveryComparisonOperator ==
    \A l \in LeftValues, op \in ComparisonOps, r \in RightValues :
        (Done /\ ver \in {"main", "p2", "p5"} /\ input = Compare(l.text, op, r.text))
            => /\ result.ok
               /\ SingleNode.type = "Macro"
               /\ Len(SingleNode.args) = 1
               /\ SingleNode.args[1].type \in {"ComparisonExpr", "Operation"}
               /\ SingleNode.args[1].operator = op
               /\ SingleNode.args[1].left = l.node
               /\ SingleNode.args[1].right = r.node

\* in part_002 the pattern of >= ends in \b, which no space after = gives:
\* >= is cut into GreaterThan and a Text =, and the parse fails
C17_GreaterOrEqualIsSplit ==
    /\ Done
    /\ ver = "p2"
    /\ input = Compare(<<"$", "a">>, L_ge, <<"1">>)
    /\ toks[3] = [kind |-> "GreaterThan", text |-> <<">">>]
    /\ toks[4] = [kind |-> "Text", text |-> <<"=">>]
    /\ ~result.ok

\* node is the whole of the side written: the value, or one arithmetic node
IsSide(node, side) ==
    IF side.op = <<>>
    THEN node = side.left
    ELSE /\ node.type \in {"ArithmeticExpr", "Operation"}
         /\ node.operator = side.op
         /\ node.left = side.left
         /\ node.right = side.right

\* C18: for an argument a1 cop a2, each side a value or value aop value,
\* EXPRESSION gives a comparison node whose left and right are the whole of
\* a1 and a2; the bare arithmetic alternative never wins and leaves the
\* comparison unconsumed.
C18_ComparisonOfArithmetic ==
    \A l \in LeftSides, op \in SideOps, r \in RightSides :
        (Done /\ ver \in {"main", "p2"} /\ input = Compare(l.text, op, r.text))
            => /\ result.ok
               /\ SingleNode.type = "Macro"
               /\ Len(SingleNode.args) = 1
               /\ SingleNode.args[1].type \in {"ComparisonExpr", "Operation"}
               /\ SingleNode.args[1].operator = op
               /\ IsSide(SingleNode.args[1].left, l)
               /\ IsSide(SingleNode.args[1].right, r)

\* EXPRESSION of part_002 is a value, an operator and a value: it ends after
\* $a + 1 and the comparison is left unconsumed
C18_ArithmeticSideFails ==
    /\ Done
    /\ ver = "p2"
    /\ input = Compare(<<"$", "a", " ", "+", " ", "1">>, L_gt, <<"2">>)
    /\ ~bad
    /\ \E c \in Range(memo["EXPRESSION_p2"][2].cs) :
           c.n = 5 /\ c.r.type = "Operation" /\ c.r.operator = <<"+">>
    /\ \A c \in Range(memo["EXPRESSION_p2"][2].cs) : c.n <= 5
    /\ ~result.ok

\* C19: an argument that is a bare value gives the value node itself;
\* v1 aop v2, written with spaces, gives one arithmetic node (aop, v1, v2);
\* an argument that chains two arithmetic or two comparison operators is
\* not accepted: the parse fails.
C19_OneOperatorLevel ==
    (Done /\ ver = "main")
        => /\ \A v \in BareValues :
                  input = Call(N_m, <<" ">> \o v.text)
                      => /\ result.ok
                         /\ SingleNode.type = "Macro"
                         /\ SingleNode.args = <<v.node>>
           /\ \A l \in BareValues, op \in ArithmeticOps, r \in SecondValues :
                  input = Arith(l.text, op, r.text)
                      => /\ result.ok
                         /\ SingleNode.type = "Macro"
                         /\ SingleNode.args =
                                <<[type |-> "ArithmeticExpr", operator |-> op,
                                   left |-> l.node, right |-> r.node]>>
           /\ input \in ChainedArgs => ~result.ok

\* the of inside $offset is found by the pattern of PropertyAccess, and
\* the call does not start with a MacroName token
C19_ValueHoldingOfFails ==
    /\ Done
    /\ ver = "main"
    /\ input = Call(N_m, <<" ", "$", "o", "f", "f", "s", "e", "t">>)
    /\ toks[1] = [kind |-> "PropertyAccess", text |-> <<"(", "m", ":", " ", "$", "o", "f">>]
    /\ ~result.ok

\* C20: for a link whose text or target is several words, Link.text and
\* Link.target are the text and whitespace of each side joined, with only
\* the leading and trailing whitespace removed: the spaces between the
\* words are kept.
C20_InteriorSpacesKept ==
    (Done /\ ver = "p2")
        => /\ \A T \in LinkPhrases, U \in LinkPhrases :
                  input = PhraseArrowLink(T, U)
                      => /\ result.ok
                         /\ SingleNode =
                                [type |-> "Link", text |-> Spaced(T), target |-> Spaced(U)]
           /\ \A T \in LinkPhrases :
                  input = PhraseLink(T)
                      => /\ result.ok
                         /\ SingleNode =
                                [type |-> "Link", text |-> Spaced(T), target |-> Spaced(T)]

\* the tokenizer drops the Space tokens, and the words are joined with
\* nothing between them
C20_WordsRunTogether ==
    /\ Done
    /\ ver = "p2"
    /\ input = PhraseArrowLink(<<<<"G", "o">>, <<"b", "a", "c", "k">>>>, <<<<"M", "a", "i", "n">>, <<"h", "a", "l", "l">>>>)
    /\ \A k \in 1..Len(toks) : toks[k].kind # "Space"
    /\ result.ok
    /\ SingleNode = [type |-> "Link", text |-> <<"G", "o", "b", "a", "c", "k">>, target |-> <<"M", "a", "i", "n", "h", "a", "l", "l">>]

\* how deep the hooks attached to macros nest under macro node m
RECURSIVE NestDepth(_)
NestDepth(m) ==
    IF HookOf(m) = Null
    THEN 0
    ELSE 1 + Max({0} \cup {NestDepth(HookOf(m).content[k]) :
                              k \in {j \in 1..Len(HookOf(m).content) :
                                        HookOf(m).content[j].type = "Macro"}})

\* C21: a well-bracketed input with a macro and its hook inside the hook of
\* another macro, to any depth, the hooks closing back to back as ]]
\* included, parses with each hook attached to its own macro; an input with
\* an unmatched [ or ] never parses.
C21_HooksNest ==
    (Done /\ ver = "p2")
        => /\ \A c \in NestedHooks :
                  input = c.text
                      => /\ result.ok
                         /\ SingleNode.type = "Macro"
                         /\ NestDepth(SingleNode) = c.depth
           /\ input \in UnmatchedBrackets => ~result.ok

\* the two brackets that close the inner and the outer hook are cut as one
\* LinkClose token, and neither hook is closed
C21_BackToBackCloseFails ==
    /\ Done
    /\ ver = "p2"
    /\ input = <<"(", "i", "f", ":", " ", "$", "a", ")", "[", "x", " ", "(", "i", "f", ":", " ", "$", "b", ")", "[", "y", "]", "]">>
    /\ ~bad
    /\ toks[Len(toks)] = [kind |-> "LinkClose", text |-> <<"]", "]">>]
    /\ \A k \in 1..Len(toks) : toks[k].kind # "HookClose"
    /\ ~result.ok

\* C22: a string literal argument "s", s free of double quotes, is cut as
\* one StringLiteral token and gives a String node whose value is exactly
\* s; a $name argument gives a Variable node whose name is name.
C22_LiteralPayloads ==
    (Done /\ ver = "main")
        => /\ \A s \in StringBodies :
                  input = PrintString(s)
                      => /\ Len(toks) >= 2
                         /\ toks[2] = [kind |-> "StringLiteral", text |-> Quoted(s)]
                         /\ result.ok
                         /\ SingleNode.args = <<StringNode(s)>>
           /\ \A n \in VariableNames :
                  input = PrintVariable(n)
                      => /\ result.ok
                         /\ SingleNode.args = <<Var(n)>>

\* the of inside "Sofia" is found by the pattern of PropertyAccess, whose
\* match from the start of the input is the longest: no StringLiteral is cut
C22_StringHoldingOfFails ==
    /\ Done
    /\ ver = "main"
    /\ input = PrintString(<<"S", "o", "f", "i", "a">>)
    /\ toks[1] = [kind |-> "PropertyAccess", text |-> <<"(", "p", "r", "i", "n", "t", ":", " ", "\"", "S", "o", "f">>]
    /\ \A k \in 1..Len(toks) : toks[k].kind # "StringLiteral"
    /\ ~result.ok

\* the nodes parseHarlowe returned at top level
TopNodes ==
    IF ~result.ok
    THEN {}
    ELSE IF result.value.type = "Program"
    THEN Range(result.value.expressions)
    ELSE {result.value}

\* C23: a Macro node returned for set or link holds exactly one argument,
\* a KeywordArg with the keyword its pattern requires; a call without the
\* keyword argument, without arguments, or with further arguments after
\* it, is not returned as a Macro node.
C23_KeywordMacroHasOneKeywordArg ==
    (Done /\ ver \in {"main", "p5"})
        => \A m \in TopNodes :
               (m.type = "Macro" /\ m.name \in {N_set, N_link})
                   => /\ Len(m.args) = 1
                      /\ m.args[1].type = "KeywordArg"
                      /\ Str(m.args[1].keyword)
                             = Lookup(MACRO_ARG_PATTERNS_p5, m.name).keyword

\* part_005 looks at the first argument only: what follows the keyword
\* argument is returned with it
C23_ArgumentAfterKeywordReturned ==
    /\ Done
    /\ ver = "p5"
    /\ input = <<"(", "s", "e", "t", ":", " ", "$", "x", " ", "t", "o", " ", "1", ",", " ", "2", ")">>
    /\ result.ok
    /\ SingleNode.type = "Macro"
    /\ SingleNode.name = N_set
    /\ Len(SingleNode.args) = 2
    /\ SingleNode.args[1].type = "KeywordArg"
    /\ SingleNode.args[2] = Num(<<"2">>)

\* the candidates of the top rule that end after the last token
EOFCandidates ==
    IF toks = <<>>
    THEN {}
    ELSE {k \in 1..Len(memo[TopRule][1].cs) : memo[TopRule][1].cs[k].n = Len(toks) + 1}

\* C24: in src/utils/parseHarlowe.ts and part_002 no input has two parse
\* candidates that reach the end of the input: parseHarlowe never throws
\* "Multiple results are returned." and an accepted input has one tree.
C24_Unambiguous ==
    (Done /\ ver \in {"main", "p2"})
        => /\ Cause # Exc("Multiple results are returned.", <<>>, <<>>)
           /\ Cardinality(EOFCandidates) <= 1
           /\ result.ok => /\ Cardinality(EOFCandidates) = 1
                            /\ AtEOF = {result.value}

\* rep(MACRO) returns a candidate for every number of macros read, and one
\* of them ends after the last token
C24_OneOfSeveralReachesEnd ==
    /\ Done
    /\ ver = "main"
    /\ input = <<"(", "p", "r", "i", "n", "t", ":", " ", "1", ")", "(", "p", "r", "i", "n", "t", ":", " ", "2", ")">>
    /\ Len(memo["PROGRAM"][1].cs) = 3
    /\ Cardinality(EOFCandidates) = 1
    /\ result.ok
    /\ Len(result.value.expressions) = 2

====
